---- MODULE Spec2Model ----
(***************************************************************************)
(* Model of the SOCKS4 client dialer (socks4/dial.go: DialContext and      *)
(* BindContext with their cancellation watcher and BIND phase-2 tasks), of *)
(* the SOCKS4 listener (ServeContext, and one connection handled with the  *)
(* default hooks), and of the SOCKS4 and SOCKS5 wire codecs.               *)
(***************************************************************************)
EXTENDS Integers, Sequences, FiniteSets, TLC

VARIABLES
    \* ---- dialer call (one DialContext or BindContext invocation) ----
    op,         \* "connect" (DialContext) or "bind" (BindContext)
    address,    \* the target address argument
    stall,      \* what the proxy leaves pending for ever: "none", the "write"
                \* of the request (it takes no bytes) or the "read" of the
                \* first reply (it sends none)
    pc,         \* position of the calling goroutine
    ctxDone,    \* ctx.Done() is closed
    cancelAt,   \* where the call was when ctx was cancelled (history)
    wpc,        \* position of the cancellation watcher goroutine
    exitCh,     \* "none" | "open" | "closed"
    conn,       \* proxyConn: "none" | "open" | "closed"
    closes,     \* sequence of tasks that called proxyConn.Close()
    pendErr,    \* error about to be returned
    req,        \* the Request built by the call
    sent,       \* bytes written to proxyConn
    resp,       \* resp / resp1 as decoded
    wire,       \* reply streams the proxy delivered to reads of proxyConn
    ret,        \* what the call returned
    steps,      \* history: <<phase, outcome>> of every step executed
    p2pc,       \* position of the BIND phase-2 goroutine
    resp2,      \* resp2 as decoded by the phase-2 goroutine
    p2err,      \* err of the phase-2 read
    readyCh,    \* [made, buf, closed]: chan error of capacity 1
    received,   \* values the caller has received from readyCh
    \* ---- listener (one ServeContext invocation) ----
    spc,        \* position of the accept loop
    sctxDone,   \* the listener's ctx.Done() is closed
    lis,        \* listener: "open" | "closed"
    lisClosedBy,\* who closed the listener
    swpc,       \* position of the goroutine that closes the listener
    acceptErrs, \* failed Accept calls reported to OnError (saturating)
    permFail,   \* Accept failed on a closed listener while ctx was live
    nconns,     \* number of connections accepted so far
    hpc,        \* hpc[c]: position of the goroutine handling connection c
    cstate,     \* cstate[c]: "none" | "open" | "closed"
    cclosedBy,  \* cclosedBy[c]: sequence of handler ids that closed c
    fault,      \* fault[c]: how handling of c failed ("none" if it has not)
    onError,    \* sequence of <<conn, err>> passed to opts.OnError (0 = nil)
    onPanic,    \* sequence of conns passed to opts.OnPanic
    crashed,    \* an unrecovered panic took the process down
    readTimeout,\* opts.RequestReadTimeout != 0
    deadline,   \* deadline[c]: read deadline of c, "none" | "set"
    hlog,       \* hlog[c]: what the goroutine handling c did, in order (history)
    \* ---- one connection served with the default hooks ----
    gpc,        \* position of the goroutine handling the connection
    gctxDone,   \* the listener's ctx.Done() is closed
    c2p,        \* bytes the client wrote that the proxy has not read yet
    cliClosed,  \* the client closed its end of the connection
    greq,       \* req as decoded by req.ReadFrom(conn)
    replies,    \* the replies written to conn with resp.WriteTo, in order
    hookRet,    \* what opts.OnRequest returned ("-" while it has not)
    gOnError,   \* errors passed to opts.OnError for this connection
    gconn,      \* the proxy's end of the client connection: "open" | "closed"
    target,     \* the connection dialled to the target: "none" | "failed" (the
                \* dial returned an error) | "open" | "closed"
    tgtClosed,  \* the destination closed its end of the target connection
    upc,        \* goroutine io.Copy(target, conn): "idle" | "copy" | "done"
    ubuf,       \* bytes it has read from conn and not yet written
    dpc,        \* goroutine io.Copy(conn, target): "idle" | "copy" | "done"
    dbuf,       \* bytes it has read from target and not yet written
    errc,       \* buffered contents of errc (capacity 2)
    cSent,      \* payload bytes the client has written (history)
    tIn,        \* payload bytes that arrived at the destination (history)
    tEcho,      \* how many of them the destination has echoed
    t2p,        \* bytes the destination wrote that the proxy has not read yet
    cIn,        \* payload bytes that arrived at the client (history)
    p2c,        \* all the bytes written to conn, in order (history)
    copyEnds,   \* what the two io.Copy calls returned, in order (history)
    tGreet,     \* what the destination wrote on its own when connected
    \* ---- one message put through its codec ----
    kind,       \* the message type
    mode,       \* "message": a record to encode; else the bytes to decode:
                \* "wire", "truncated", "corrupted", "followed" (by the
                \* next bytes)
    msg,        \* the record
    stream,     \* the bytes handed to ReadFrom
    limits,     \* maxUserIDLen and maxDomainLen of the decode
    verr,       \* result of Validate ("-" while not called)
    vdom,       \* result of Request.ValidateDomain ("-" while not called)
    enc,        \* result of WriteTo
    dec         \* result of ReadFrom

dialVars == <<op, address, stall, pc, ctxDone, cancelAt, wpc, exitCh, conn, closes,
              pendErr, req, sent, resp, wire, ret, steps, p2pc, resp2, p2err,
              readyCh, received>>
serveVars == <<spc, sctxDone, lis, lisClosedBy, swpc, acceptErrs, permFail,
               nconns, hpc, cstate, cclosedBy, fault, onError, onPanic,
               crashed, readTimeout, deadline, hlog>>
proxyVars == <<gpc, gctxDone, c2p, cliClosed, greq, replies, hookRet, gOnError,
               gconn, target, tgtClosed, upc, ubuf, dpc, dbuf, errc, cSent,
               tIn, tEcho, t2p, cIn, p2c, copyEnds, tGreet>>
codecVars == <<kind, mode, msg, stream, limits, verr, vdom, enc, dec>>
vars == <<dialVars, serveVars, proxyVars, codecVars>>

----------------------------------------------------------------------------
(* Bounds *)

\* connections the listener accepts in one run
MaxConns == 2

\* failed Accept calls that are counted (the count saturates here)
MaxAcceptErrs == 2

\* bytes the client sends through an established tunnel
MaxPayload == 2

\* length of the strings and byte slices given to message fields
MaxStr == 2

----------------------------------------------------------------------------
(* Protocol constants *)

SocksVersion == 4
CmdConnect == 1
CmdBind == 2
RepGranted == 90
RepRejected == 91
RepIdentFailed == 92
RepUserIDMismatch == 93

----------------------------------------------------------------------------
(* Errors *)

HexDigits == <<"0", "1", "2", "3", "4", "5", "6", "7",
               "8", "9", "a", "b", "c", "d", "e", "f">>

\* the code printed in decimal (%02d) instead of hexadecimal
Hex02_Decimal(b) == <<HexDigits[((b \div 10) % 10) + 1], HexDigits[(b % 10) + 1]>>

\* fmt verb %02x applied to a byte
Hex02(b) == <<HexDigits[(b \div 16) + 1], HexDigits[(b % 16) + 1]>>

\* the number a two-digit hexadecimal text denotes (-1 if it is not one)
HexValue(t) ==
    IF Len(t) = 2 /\ \E i, j \in 1..16 : HexDigits[i] = t[1] /\ HexDigits[j] = t[2]
    THEN LET i == CHOOSE i \in 1..16 : HexDigits[i] = t[1]
             j == CHOOSE j \in 1..16 : HexDigits[j] = t[2]
         IN (i - 1) * 16 + (j - 1)
    ELSE -1

NoErr == [tag |-> "nil", code |-> <<>>, cause |-> "nil"]

\* fmt.Errorf("<tag>: %w", cause)
Wrap(tag, cause) == [tag |-> tag, code |-> <<>>, cause |-> cause]

\* fmt.Errorf("<tag> (code 0x%02x)", code)
Rejected(tag, code) == [tag |-> tag, code |-> Hex02(code), cause |-> "nil"]

----------------------------------------------------------------------------
(* SOCKS4 Response codec *)

ZeroResponse == [Version |-> 0, Code |-> 0, Port |-> 0, IP |-> <<0, 0, 0, 0>>]

ResponseValidate(r) ==
    IF r.Version # 0 THEN "ErrInvalidResponseVersion"
    ELSE IF r.Code \in {RepGranted, RepRejected, RepIdentFailed, RepUserIDMismatch}
         THEN "nil"
         ELSE "ErrInvalidResponseCode"

IsGranted(r) == r.Code = RepGranted

\* ReadFrom on a stream that delivers the bytes src and then ends
ResponseReadFrom(r, src) ==
    IF Len(src) < 8
    THEN [n |-> Len(src),
          err |-> IF Len(src) = 0 THEN "EOF" ELSE "ErrUnexpectedEOF",
          resp |-> r]
    ELSE LET r2 == [Version |-> src[1], Code |-> src[2],
                    Port |-> src[3] * 256 + src[4],
                    IP |-> SubSeq(src, 5, 8)]
         IN [n |-> 8, err |-> ResponseValidate(r2), resp |-> r2]

\* Response.Init: copy(r.IP[:], ip.To4()) copies nothing when To4() is nil
ResponseInit(version, code, port, ip4) ==
    [Version |-> version, Code |-> code, Port |-> port,
     IP |-> IF ip4 = <<>> THEN <<0, 0, 0, 0>> ELSE ip4]

\* Response.WriteTo: the 8 bytes of the reply
ResponseWriteTo(r) ==
    <<r.Version, r.Code, r.Port \div 256, r.Port % 256>> \o r.IP

\* ReadFrom on proxyConn: fails at once when the connection was closed locally
ConnReadResponse(r, c, src) ==
    IF c = "closed"
    THEN [n |-> 0, err |-> "use of closed network connection", resp |-> r]
    ELSE ResponseReadFrom(r, src)

\* the streams delivered so far: a read of a closed connection gets nothing
Delivered(w, c, src) == IF c = "closed" THEN w ELSE Append(w, src)

\* what a proxy may deliver for one reply: a full 8-byte reply, or a stream
\* that ends early
ReplyPorts == {<<0, 0>>, <<21, 179>>}
ReplyHeaders ==
    {<<v, c, p[1], p[2], 127, 0, 0, 1>> :
        v \in {0, 4}, c \in {89, 90, 91, 92, 93}, p \in ReplyPorts}
ReplyStreams ==
    ReplyHeaders \cup {<<>>, <<0, 90, 21>>}


----------------------------------------------------------------------------
(* Target addresses and the SOCKS4 Request the dialer builds *)

\* the userID configured in the Dialer ("u")
UserID == <<117>>

Addresses == {"127.0.0.1:9999", "a.b:80", "[::1]:80", "127.0.0.1", "127.0.0.1:nope"}

\* net.SplitHostPort on the addresses above
SplitHostPort(a) ==
    CASE a = "127.0.0.1:9999" -> [host |-> "127.0.0.1", port |-> "9999", err |-> "nil"]
      [] a = "a.b:80"         -> [host |-> "a.b", port |-> "80", err |-> "nil"]
      [] a = "[::1]:80"       -> [host |-> "::1", port |-> "80", err |-> "nil"]
      [] a = "127.0.0.1:nope" -> [host |-> "127.0.0.1", port |-> "nope", err |-> "nil"]
      [] OTHER                -> [host |-> "", port |-> "", err |-> "missing port in address"]

\* parsePort: net.LookupPort("tcp", p) narrowed to uint16
parsePort(p) ==
    CASE p = "9999" -> [port |-> 9999 % 65536, err |-> "nil"]
      [] p = "80"   -> [port |-> 80 % 65536, err |-> "nil"]
      [] OTHER      -> [port |-> 0, err |-> "unknown port"]

\* net.ParseIP(host).To4(): the 4 bytes of a literal IPv4 host, else nil (<<>>)
ParseIP(h) ==
    CASE h = "127.0.0.1" -> [isNil |-> FALSE, to4 |-> <<127, 0, 0, 1>>]
      [] h = "::1"       -> [isNil |-> FALSE, to4 |-> <<>>]
      [] OTHER           -> [isNil |-> TRUE, to4 |-> <<>>]

\* the bytes of a host string
HostBytes(h) ==
    CASE h = "a.b" -> <<97, 46, 98>>
      [] h = "127.0.0.1" -> <<49, 50, 55, 46, 48, 46, 48, 46, 49>>
      [] h = "::1" -> <<58, 58, 49>>
      [] OTHER -> <<>>

ZeroRequest == [Version |-> 0, Command |-> 0, Port |-> 0, IP |-> <<0, 0, 0, 0>>,
                UserID |-> <<>>, Domain |-> <<>>]

\* Request.Init: copy(r.IP[:], ip.To4()) copies nothing when To4() is nil
RequestInit(version, command, port, ip4, userID, domain) ==
    [Version |-> version, Command |-> command, Port |-> port,
     IP |-> IF ip4 = <<>> THEN <<0, 0, 0, 0>> ELSE ip4,
     UserID |-> userID, Domain |-> domain]

IsSOCKS4a(r) == r.IP[1] = 0 /\ r.IP[2] = 0 /\ r.IP[3] = 0 /\ r.IP[4] # 0

\* the request DialContext / BindContext builds for (command, host, port)
BuildRequest(command, host, port) ==
    LET r == RequestInit(SocksVersion, command, port, ParseIP(host).to4, UserID, <<>>)
    IN IF ParseIP(host).isNil
       THEN [r EXCEPT !.IP = <<0, 0, 0, 1>>, !.Domain = HostBytes(host)]
       ELSE r

\* Request.WriteTo: header, USERID NUL, and DOMAIN NUL for SOCKS4a
RequestWriteTo(r) ==
    <<r.Version, r.Command, r.Port \div 256, r.Port % 256>> \o r.IP
        \o r.UserID \o <<0>>
        \o (IF IsSOCKS4a(r) THEN r.Domain \o <<0>> ELSE <<>>)

----------------------------------------------------------------------------
(* SOCKS4 Request codec: validation and decoding *)

\* bufio.NewReaderSize(nil, 256): the buffer of the pooled reader
ReaderSize == 256

DefaultMaxUserIDLen == 256
DefaultMaxDomainLen == 256

Min(a, b) == IF a < b THEN a ELSE b

\* position of the first b in s, 0 when s holds none
IndexByte(s, b) ==
    IF \E i \in 1..Len(s) : s[i] = b
    THEN CHOOSE i \in 1..Len(s) : s[i] = b /\ \A j \in 1..(i - 1) : s[j] # b
    ELSE 0

\* bufio.Reader.ReadString(delim) on a reader holding buf, filled through a
\* LimitedReader with N bytes left over a stream that delivers src and ends.
\* frags are the full buffers already collected. A fill is one Read of at
\* most min(free space, N) bytes; with N <= 0 or src exhausted it is EOF, and
\* the bytes collected so far are returned with the error.
RECURSIVE ReadString(_, _, _, _, _)
ReadString(frags, buf, N, src, delim) ==
    LET i == IndexByte(buf, delim)
    IN IF i > 0
       THEN [line |-> frags \o SubSeq(buf, 1, i), err |-> "nil",
             buf |-> SubSeq(buf, i + 1, Len(buf)), N |-> N, src |-> src]
       ELSE IF Len(buf) >= ReaderSize
       THEN ReadString(frags \o buf, <<>>, N, src, delim)
       ELSE IF N <= 0 \/ src = <<>>
       THEN [line |-> frags \o buf, err |-> "EOF", buf |-> <<>>, N |-> N, src |-> src]
       ELSE LET n == Min(Min(ReaderSize - Len(buf), N), Len(src))
            IN ReadString(frags, buf \o SubSeq(src, 1, n), N - n,
                          SubSeq(src, n + 1, Len(src)), delim)

\* Request.ValidateHeader: net.IP(r.IP[:]).To4() of a 4-byte array is never nil
RequestValidateHeader(r) ==
    IF r.Version # SocksVersion THEN "ErrInvalidVersion"
    ELSE IF r.Command # CmdConnect /\ r.Command # CmdBind THEN "ErrInvalidCommand"
    ELSE IF r.IP = <<0, 0, 0, 0>> /\ r.Command = CmdConnect THEN "ErrInvalidIP"
    ELSE "nil"

\* a domain check that only looks at SOCKS4a requests
RequestValidateDomain_Only4a(r) ==
    IF IsSOCKS4a(r)
    THEN IF Len(r.Domain) = 0 THEN "ErrInvalidDomain" ELSE "nil"
    ELSE "nil"

RequestValidateDomain(r) ==
    IF IsSOCKS4a(r)
    THEN IF Len(r.Domain) = 0 THEN "ErrInvalidDomain" ELSE "nil"
    ELSE IF Len(r.Domain) > 0 THEN "ErrInvalidDomain" ELSE "nil"

RequestValidate(r) ==
    IF RequestValidateHeader(r) # "nil" THEN RequestValidateHeader(r)
    ELSE RequestValidateDomain(r)

\* Request.ReadHeaderFrom: io.ReadFull of 8 bytes, then ValidateHeader.
\* A decoder yields the byte count, the error, the record as it was left, the
\* rest of the stream and the fields it issued a read for, in order.
RequestReadHeaderFrom(r, src) ==
    IF Len(src) < 8
    THEN [n |-> Len(src),
          err |-> IF Len(src) = 0 THEN "EOF" ELSE "ErrUnexpectedEOF",
          req |-> r, src |-> <<>>, reads |-> <<"header">>]
    ELSE LET r2 == [r EXCEPT !.Version = src[1], !.Command = src[2],
                             !.Port = src[3] * 256 + src[4],
                             !.IP = SubSeq(src, 5, 8)]
         IN [n |-> 8, err |-> RequestValidateHeader(r2), req |-> r2,
             src |-> SubSeq(src, 9, Len(src)), reads |-> <<"header">>]

\* Request.ReadUserIDAndDomain: both strings are read through one pooled
\* bufio.Reader; lr.Init resets the limit, not the bytes already buffered
RequestReadUserIDAndDomain(r, src, maxUserIDLen, maxDomainLen) ==
    LET u == ReadString(<<>>, <<>>, maxUserIDLen + 1, src, 0)
    IN IF u.err # "nil"
       THEN [n |-> Len(u.line), err |-> u.err, req |-> r, src |-> u.src,
             reads |-> <<"userID">>]
       ELSE LET r1 == [r EXCEPT !.UserID = SubSeq(u.line, 1, Len(u.line) - 1)]
            IN IF ~IsSOCKS4a(r1)
               THEN [n |-> Len(u.line), err |-> "nil", req |-> r1, src |-> u.src,
                     reads |-> <<"userID">>]
               ELSE LET d == ReadString(<<>>, u.buf, maxDomainLen + 1, u.src, 0)
                    IN IF d.err # "nil"
                       THEN [n |-> Len(u.line) + Len(d.line), err |-> d.err,
                             req |-> r1, src |-> d.src,
                             reads |-> <<"userID", "domain">>]
                       ELSE [n |-> Len(u.line) + Len(d.line), err |-> "nil",
                             req |-> [r1 EXCEPT !.Domain =
                                         SubSeq(d.line, 1, Len(d.line) - 1)],
                             src |-> d.src, reads |-> <<"userID", "domain">>]

RequestReadFromWithLimits(r, src, maxUserIDLen, maxDomainLen) ==
    LET h == RequestReadHeaderFrom(r, src)
    IN IF h.err # "nil"
       THEN h
       ELSE LET t == RequestReadUserIDAndDomain(h.req, h.src, maxUserIDLen, maxDomainLen)
            IN [t EXCEPT !.n = h.n + t.n, !.reads = h.reads \o t.reads]

RequestReadFrom(r, src) ==
    RequestReadFromWithLimits(r, src, DefaultMaxUserIDLen, DefaultMaxDomainLen)

----------------------------------------------------------------------------
(* Dialer: shared shapes *)

NoAddr == [IP |-> <<>>, Port |-> -1]
NoRet == [conn |-> FALSE, bindAddr |-> NoAddr, readyCh |-> FALSE, err |-> NoErr]
NoChan == [made |-> FALSE, buf |-> <<>>, closed |-> FALSE]
ChanClosed == [tag |-> "closed", code |-> <<>>, cause |-> "nil"]
NotCancelled == [pc |-> "-", p2pc |-> "-"]

phase2Vars == <<p2pc, resp2, p2err, readyCh, received>>
inputVars == <<op, address, stall>>
ctxVars == <<ctxDone, cancelAt>>

InitDialer ==
    /\ op \in {"connect", "bind"}
    /\ address \in Addresses
    /\ stall \in {"none", "write", "read"}
    /\ pc = "dial"
    /\ ctxDone = FALSE
    /\ cancelAt = NotCancelled
    /\ wpc = "idle"
    /\ exitCh = "none"
    /\ conn = "none"
    /\ closes = <<>>
    /\ pendErr = NoErr
    /\ req = ZeroRequest
    /\ sent = <<>>
    /\ resp = ZeroResponse
    /\ wire = <<>>
    /\ ret = NoRet
    /\ steps = <<>>
    /\ p2pc = "idle"
    /\ resp2 = ZeroResponse
    /\ p2err = NoErr
    /\ readyCh = NoChan
    /\ received = <<>>

\* a Write or Read of proxyConn that the proxy leaves pending returns only
\* when the connection is closed locally; any other returns
Unblocked(what) == stall # what \/ conn = "closed"

\* the context passed to the call is cancelled (by its owner or its deadline)
Cancel ==
    /\ ~ctxDone
    /\ ctxDone' = TRUE
    /\ cancelAt' = [pc |-> pc, p2pc |-> p2pc]
    /\ UNCHANGED <<inputVars, pc, wpc, exitCh, conn, closes, pendErr, req, sent,
                   resp, wire, ret, steps, phase2Vars, serveVars, proxyVars,
                   codecVars>>

\* a step of the call failed: remember the error, go and close proxyConn
FailStep(phase, e) ==
    /\ pendErr' = e
    /\ steps' = Append(steps, <<phase, "fail">>)
    /\ pc' = "close"

\* a step of the call succeeded
PassStep(phase, next) ==
    /\ steps' = Append(steps, <<phase, "ok">>)
    /\ pc' = next
    /\ UNCHANGED pendErr

----------------------------------------------------------------------------
(* Dialer.DialContext (CMD_CONNECT) *)

\* proxyConn, err := dialFunc(ctx, network, d.ProxyAddr)
Dial_ConnectProxy ==
    /\ op = "connect" /\ pc = "dial"
    /\ \E ok \in BOOLEAN :
        IF ok /\ ~ctxDone
        THEN /\ conn' = "open"
             /\ steps' = Append(steps, <<"connect", "ok">>)
             /\ pc' = "watch"
             /\ UNCHANGED ret
        ELSE /\ ret' = [NoRet EXCEPT !.err = Wrap("connect to proxy", "dial error")]
             /\ steps' = Append(steps, <<"connect", "fail">>)
             /\ pc' = "done"
             /\ UNCHANGED conn
    /\ UNCHANGED <<inputVars, ctxVars, wpc, exitCh, closes, pendErr, req, sent,
                   resp, wire, phase2Vars, serveVars, proxyVars,
                   codecVars>>

\* exitCh := make(chan struct{}); defer close(exitCh); go func() { select ... }()
Dial_StartWatcher ==
    /\ op = "connect" /\ pc = "watch"
    /\ exitCh' = "open"
    /\ wpc' = "select"
    /\ pc' = "split"
    /\ UNCHANGED <<inputVars, ctxVars, conn, closes, pendErr, req, sent, resp, wire,
                   ret, steps, phase2Vars, serveVars, proxyVars,
                   codecVars>>

\* a watcher that returns on cancellation without closing proxyConn
Dial_Watcher_NoClose ==
    /\ op = "connect" /\ wpc = "select"
    /\ (ctxDone \/ exitCh = "closed")
    /\ wpc' = "done"
    /\ UNCHANGED <<inputVars, ctxVars, pc, exitCh, conn, closes, pendErr, req, sent,
                   resp, wire, ret, steps, phase2Vars, serveVars, proxyVars,
                   codecVars>>

\* the watcher's select: a ready case is chosen, at random when both are ready
Dial_Watcher ==
    /\ op = "connect" /\ wpc = "select"
    /\ \/ /\ ctxDone
          /\ closes' = Append(closes, "watcher")
          /\ conn' = "closed"
       \/ /\ exitCh = "closed"
          /\ UNCHANGED <<closes, conn>>
    /\ wpc' = "done"
    /\ UNCHANGED <<inputVars, ctxVars, pc, exitCh, pendErr, req, sent, resp, wire,
                   ret, steps, phase2Vars, serveVars, proxyVars,
                   codecVars>>

\* host, portStr, err := net.SplitHostPort(address)
Dial_SplitHostPort ==
    /\ op = "connect" /\ pc = "split"
    /\ LET r == SplitHostPort(address)
       IN IF r.err # "nil"
          THEN FailStep("split", Wrap("invalid target address", r.err))
          ELSE PassStep("split", "port")
    /\ UNCHANGED <<inputVars, ctxVars, wpc, exitCh, conn, closes, req, sent,
                   resp, wire, ret, phase2Vars, serveVars, proxyVars,
                   codecVars>>

\* port, err := parsePort(portStr)
Dial_ParsePort ==
    /\ op = "connect" /\ pc = "port"
    /\ LET r == parsePort(SplitHostPort(address).port)
       IN IF r.err # "nil"
          THEN FailStep("port", Wrap("invalid target port", r.err))
          ELSE PassStep("port", "send")
    /\ UNCHANGED <<inputVars, ctxVars, wpc, exitCh, conn, closes, req, sent,
                   resp, wire, ret, phase2Vars, serveVars, proxyVars,
                   codecVars>>

\* build the request and req.WriteTo(proxyConn)
Dial_SendRequest ==
    /\ op = "connect" /\ pc = "send" /\ Unblocked("write")
    /\ LET a == SplitHostPort(address)
           r == BuildRequest(CmdConnect, a.host, parsePort(a.port).port)
       IN /\ req' = r
          /\ \E ok \in BOOLEAN :
                IF conn = "closed"
                THEN /\ FailStep("send", Wrap("send request", "use of closed network connection"))
                     /\ UNCHANGED sent
                ELSE IF ok
                THEN /\ PassStep("send", "read")
                     /\ sent' = RequestWriteTo(r)
                ELSE /\ FailStep("send", Wrap("send request", "write error"))
                     /\ UNCHANGED sent
    /\ UNCHANGED <<inputVars, ctxVars, wpc, exitCh, conn, closes, resp, wire, ret,
                   phase2Vars, serveVars, proxyVars,
                   codecVars>>

\* resp.ReadFrom(proxyConn)
Dial_ReadResponse ==
    /\ op = "connect" /\ pc = "read" /\ Unblocked("read")
    /\ \E src \in ReplyStreams :
        LET r == ConnReadResponse(resp, conn, src)
        IN /\ resp' = r.resp
           /\ wire' = Delivered(wire, conn, src)
           /\ IF r.err # "nil"
              THEN FailStep("read", Wrap("read response", r.err))
              ELSE PassStep("read", "grant")
    /\ UNCHANGED <<inputVars, ctxVars, wpc, exitCh, conn, closes, req, sent,
                   ret, phase2Vars, serveVars, proxyVars,
                   codecVars>>

\* the rejection path returns without closing proxyConn
Dial_CheckGranted_NoClose ==
    /\ op = "connect" /\ pc = "grant"
    /\ IF ~IsGranted(resp)
       THEN /\ pendErr' = Rejected("proxy rejected request", resp.Code)
            /\ steps' = Append(steps, <<"grant", "fail">>)
            /\ pc' = "reterr"
       ELSE PassStep("grant", "retok")
    /\ UNCHANGED <<inputVars, ctxVars, wpc, exitCh, conn, closes, req, sent,
                   resp, wire, ret, phase2Vars, serveVars, proxyVars,
                   codecVars>>

\* if !resp.IsGranted() { ... "proxy rejected request (code 0x%02x)" }
Dial_CheckGranted ==
    /\ op = "connect" /\ pc = "grant"
    /\ IF ~IsGranted(resp)
       THEN FailStep("grant", Rejected("proxy rejected request", resp.Code))
       ELSE PassStep("grant", "retok")
    /\ UNCHANGED <<inputVars, ctxVars, wpc, exitCh, conn, closes, req, sent,
                   resp, wire, ret, phase2Vars, serveVars, proxyVars,
                   codecVars>>

\* proxyConn.Close() on a failure path
Dial_CloseOnFailure ==
    /\ op = "connect" /\ pc = "close"
    /\ closes' = Append(closes, "caller")
    /\ conn' = "closed"
    /\ pc' = "reterr"
    /\ UNCHANGED <<inputVars, ctxVars, wpc, exitCh, pendErr, req, sent, resp, wire,
                   ret, steps, phase2Vars, serveVars, proxyVars,
                   codecVars>>

\* return nil, err (the deferred close(exitCh) runs)
Dial_ReturnError ==
    /\ op = "connect" /\ pc = "reterr"
    /\ ret' = [NoRet EXCEPT !.err = pendErr]
    /\ exitCh' = "closed"
    /\ pc' = "done"
    /\ UNCHANGED <<inputVars, ctxVars, wpc, conn, closes, pendErr, req, sent,
                   resp, wire, steps, phase2Vars, serveVars, proxyVars,
                   codecVars>>

\* return proxyConn, nil (the deferred close(exitCh) runs)
Dial_ReturnConn ==
    /\ op = "connect" /\ pc = "retok"
    /\ ret' = [NoRet EXCEPT !.conn = TRUE]
    /\ exitCh' = "closed"
    /\ pc' = "done"
    /\ UNCHANGED <<inputVars, ctxVars, wpc, conn, closes, pendErr, req, sent,
                   resp, wire, steps, phase2Vars, serveVars, proxyVars,
                   codecVars>>

DialNext ==
    \/ Dial_ConnectProxy \/ Dial_StartWatcher \/ Dial_Watcher
    \/ Dial_SplitHostPort \/ Dial_ParsePort \/ Dial_SendRequest
    \/ Dial_ReadResponse \/ Dial_CheckGranted \/ Dial_CloseOnFailure
    \/ Dial_ReturnError \/ Dial_ReturnConn

----------------------------------------------------------------------------
(* Dialer.BindContext (CMD_BIND) *)

\* proxyConn, err := dialFunc(ctx, network, d.ProxyAddr)
Bind_ConnectProxy ==
    /\ op = "bind" /\ pc = "dial"
    /\ \E ok \in BOOLEAN :
        IF ok /\ ~ctxDone
        THEN /\ conn' = "open"
             /\ steps' = Append(steps, <<"connect", "ok">>)
             /\ pc' = "watch"
             /\ UNCHANGED ret
        ELSE /\ ret' = [NoRet EXCEPT !.err = Wrap("connect to proxy", "dial error")]
             /\ steps' = Append(steps, <<"connect", "fail">>)
             /\ pc' = "done"
             /\ UNCHANGED conn
    /\ UNCHANGED <<inputVars, ctxVars, wpc, exitCh, closes, pendErr, req, sent,
                   resp, wire, phase2Vars, serveVars, proxyVars,
                   codecVars>>

\* exitCh := make(chan struct{}); defer close(exitCh); go func() { select ... }()
Bind_StartWatcher ==
    /\ op = "bind" /\ pc = "watch"
    /\ exitCh' = "open"
    /\ wpc' = "select"
    /\ pc' = "split"
    /\ UNCHANGED <<inputVars, ctxVars, conn, closes, pendErr, req, sent, resp, wire,
                   ret, steps, phase2Vars, serveVars, proxyVars,
                   codecVars>>

\* the watcher's select: a ready case is chosen, at random when both are ready
Bind_Watcher ==
    /\ op = "bind" /\ wpc = "select"
    /\ \/ /\ ctxDone
          /\ closes' = Append(closes, "watcher")
          /\ conn' = "closed"
       \/ /\ exitCh = "closed"
          /\ UNCHANGED <<closes, conn>>
    /\ wpc' = "done"
    /\ UNCHANGED <<inputVars, ctxVars, pc, exitCh, pendErr, req, sent, resp, wire,
                   ret, steps, phase2Vars, serveVars, proxyVars,
                   codecVars>>

\* host, portStr, err := net.SplitHostPort(address)
Bind_SplitHostPort ==
    /\ op = "bind" /\ pc = "split"
    /\ LET r == SplitHostPort(address)
       IN IF r.err # "nil"
          THEN FailStep("split", Wrap("invalid target address", r.err))
          ELSE PassStep("split", "port")
    /\ UNCHANGED <<inputVars, ctxVars, wpc, exitCh, conn, closes, req, sent,
                   resp, wire, ret, phase2Vars, serveVars, proxyVars,
                   codecVars>>

\* port, err := parsePort(portStr)
Bind_ParsePort ==
    /\ op = "bind" /\ pc = "port"
    /\ LET r == parsePort(SplitHostPort(address).port)
       IN IF r.err # "nil"
          THEN FailStep("port", Wrap("invalid target port", r.err))
          ELSE PassStep("port", "send")
    /\ UNCHANGED <<inputVars, ctxVars, wpc, exitCh, conn, closes, req, sent,
                   resp, wire, ret, phase2Vars, serveVars, proxyVars,
                   codecVars>>

\* build the BIND request and req.WriteTo(proxyConn)
Bind_SendRequest ==
    /\ op = "bind" /\ pc = "send" /\ Unblocked("write")
    /\ LET a == SplitHostPort(address)
           r == BuildRequest(CmdBind, a.host, parsePort(a.port).port)
       IN /\ req' = r
          /\ \E ok \in BOOLEAN :
                IF conn = "closed"
                THEN /\ FailStep("send", Wrap("send BIND request", "use of closed network connection"))
                     /\ UNCHANGED sent
                ELSE IF ok
                THEN /\ PassStep("send", "read")
                     /\ sent' = RequestWriteTo(r)
                ELSE /\ FailStep("send", Wrap("send BIND request", "write error"))
                     /\ UNCHANGED sent
    /\ UNCHANGED <<inputVars, ctxVars, wpc, exitCh, conn, closes, resp, wire, ret,
                   phase2Vars, serveVars, proxyVars,
                   codecVars>>

\* resp1.ReadFrom(proxyConn)
Bind_ReadFirstResponse ==
    /\ op = "bind" /\ pc = "read" /\ Unblocked("read")
    /\ \E src \in ReplyStreams :
        LET r == ConnReadResponse(resp, conn, src)
        IN /\ resp' = r.resp
           /\ wire' = Delivered(wire, conn, src)
           /\ IF r.err # "nil"
              THEN FailStep("read", Wrap("read first BIND response", r.err))
              ELSE PassStep("read", "grant")
    /\ UNCHANGED <<inputVars, ctxVars, wpc, exitCh, conn, closes, req, sent,
                   ret, phase2Vars, serveVars, proxyVars,
                   codecVars>>

\* if !resp1.IsGranted() { ... "proxy rejected BIND setup (code 0x%02x)" }
Bind_CheckGranted ==
    /\ op = "bind" /\ pc = "grant"
    /\ IF ~IsGranted(resp)
       THEN FailStep("grant", Rejected("proxy rejected BIND setup", resp.Code))
       ELSE PassStep("grant", "ready")
    /\ UNCHANGED <<inputVars, ctxVars, wpc, exitCh, conn, closes, req, sent,
                   resp, wire, ret, phase2Vars, serveVars, proxyVars,
                   codecVars>>

\* proxyConn.Close() on a failure path
Bind_CloseOnFailure ==
    /\ op = "bind" /\ pc = "close"
    /\ closes' = Append(closes, "caller")
    /\ conn' = "closed"
    /\ pc' = "reterr"
    /\ UNCHANGED <<inputVars, ctxVars, wpc, exitCh, pendErr, req, sent, resp, wire,
                   ret, steps, phase2Vars, serveVars, proxyVars,
                   codecVars>>

\* return nil, nil, nil, err (the deferred close(exitCh) runs)
Bind_ReturnError ==
    /\ op = "bind" /\ pc = "reterr"
    /\ ret' = [NoRet EXCEPT !.err = pendErr]
    /\ exitCh' = "closed"
    /\ pc' = "done"
    /\ UNCHANGED <<inputVars, ctxVars, wpc, conn, closes, pendErr, req, sent,
                   resp, wire, steps, phase2Vars, serveVars, proxyVars,
                   codecVars>>

\* bindAddr := &net.TCPAddr{IP: resp1.GetIP(), Port: int(resp1.Port)}
BindAddr(r) == [IP |-> r.IP, Port |-> r.Port]

\* readyCh := make(chan error, 1); go func() { defer close(readyCh) ... }()
Bind_StartPhase2 ==
    /\ op = "bind" /\ pc = "ready"
    /\ readyCh' = [made |-> TRUE, buf |-> <<>>, closed |-> FALSE]
    /\ p2pc' = "read"
    /\ pc' = "retok"
    /\ UNCHANGED <<inputVars, ctxVars, wpc, exitCh, conn, closes, pendErr, req,
                   sent, resp, wire, ret, steps, resp2, p2err, received, serveVars, proxyVars,
                   codecVars>>

\* return proxyConn, bindAddr, readyCh, nil (the deferred close(exitCh) runs)
Bind_Return ==
    /\ op = "bind" /\ pc = "retok"
    /\ ret' = [conn |-> TRUE, bindAddr |-> BindAddr(resp), readyCh |-> TRUE,
               err |-> NoErr]
    /\ exitCh' = "closed"
    /\ pc' = "done"
    /\ UNCHANGED <<inputVars, ctxVars, wpc, conn, closes, pendErr, req, sent,
                   resp, wire, steps, phase2Vars, serveVars, proxyVars,
                   codecVars>>

\* a phase 2 that does not look at the code of reply 2
AfterRead2_IgnoreCode(err, r) ==
    IF err # "nil" THEN "senderr" ELSE "sendnil"

\* where the phase-2 goroutine goes after the read, and after each send
AfterRead2(err, r) ==
    IF err # "nil" THEN "senderr"
    ELSE IF ~IsGranted(r) THEN "sendrej" ELSE "sendnil"

\* phase 2: resp2.ReadFrom(proxyConn)
Bind_Phase2Read ==
    /\ op = "bind" /\ p2pc = "read"
    /\ \E src \in ReplyStreams :
        LET r == ConnReadResponse(resp2, conn, src)
        IN /\ resp2' = r.resp
           /\ wire' = Delivered(wire, conn, src)
           /\ p2err' = IF r.err # "nil"
                       THEN Wrap("read second BIND response", r.err)
                       ELSE NoErr
           /\ p2pc' = AfterRead2(r.err, r.resp)
    /\ UNCHANGED <<inputVars, ctxVars, pc, wpc, exitCh, conn, closes, pendErr,
                   req, sent, resp, ret, steps, readyCh, received, serveVars, proxyVars,
                   codecVars>>

\* a send on readyCh blocks while the buffer (capacity 1) is full
ChanSend(ch, v) == [ch EXCEPT !.buf = Append(ch.buf, v)]
CanSend(ch) == ch.made /\ ~ch.closed /\ Len(ch.buf) < 1

\* phase 2: readyCh <- fmt.Errorf("read second BIND response: %w", err); no return
Bind_Phase2SendReadErr ==
    /\ op = "bind" /\ p2pc = "senderr"
    /\ CanSend(readyCh)
    /\ readyCh' = ChanSend(readyCh, p2err)
    /\ p2pc' = IF ~IsGranted(resp2) THEN "sendrej" ELSE "sendnil"
    /\ UNCHANGED <<inputVars, ctxVars, pc, wpc, exitCh, conn, closes, pendErr,
                   req, sent, resp, wire, ret, steps, resp2, p2err, received, serveVars, proxyVars,
                   codecVars>>

\* phase 2: readyCh <- fmt.Errorf("proxy rejected BIND finalization ..."); no return
Bind_Phase2SendRejected ==
    /\ op = "bind" /\ p2pc = "sendrej"
    /\ CanSend(readyCh)
    /\ readyCh' = ChanSend(readyCh, Rejected("proxy rejected BIND finalization", resp2.Code))
    /\ p2pc' = "sendnil"
    /\ UNCHANGED <<inputVars, ctxVars, pc, wpc, exitCh, conn, closes, pendErr,
                   req, sent, resp, wire, ret, steps, resp2, p2err, received, serveVars, proxyVars,
                   codecVars>>

\* the phase-2 goroutine reports success without waiting for reply 2
Bind_Phase2SendNil_Early ==
    /\ op = "bind" /\ p2pc \in {"read", "sendnil"}
    /\ CanSend(readyCh)
    /\ readyCh' = ChanSend(readyCh, NoErr)
    /\ p2pc' = IF p2pc = "read" THEN "read" ELSE "closech"
    /\ UNCHANGED <<inputVars, ctxVars, pc, wpc, exitCh, conn, closes, pendErr,
                   req, sent, resp, wire, ret, steps, resp2, p2err, received, serveVars, proxyVars,
                   codecVars>>

\* phase 2: readyCh <- nil
Bind_Phase2SendNil ==
    /\ op = "bind" /\ p2pc = "sendnil"
    /\ CanSend(readyCh)
    /\ readyCh' = ChanSend(readyCh, NoErr)
    /\ p2pc' = "closech"
    /\ UNCHANGED <<inputVars, ctxVars, pc, wpc, exitCh, conn, closes, pendErr,
                   req, sent, resp, wire, ret, steps, resp2, p2err, received, serveVars, proxyVars,
                   codecVars>>

\* phase 2: the deferred close(readyCh)
Bind_Phase2Close ==
    /\ op = "bind" /\ p2pc = "closech"
    /\ readyCh' = [readyCh EXCEPT !.closed = TRUE]
    /\ p2pc' = "done"
    /\ UNCHANGED <<inputVars, ctxVars, pc, wpc, exitCh, conn, closes, pendErr,
                   req, sent, resp, wire, ret, steps, resp2, p2err, received, serveVars, proxyVars,
                   codecVars>>

\* the caller of BindContext receives from the channel it was handed
Caller_Recv ==
    /\ op = "bind" /\ pc = "done" /\ ret.readyCh
    /\ \/ /\ readyCh.buf # <<>>
          /\ received' = Append(received, Head(readyCh.buf))
          /\ readyCh' = [readyCh EXCEPT !.buf = Tail(readyCh.buf)]
       \/ /\ readyCh.buf = <<>> /\ readyCh.closed
          /\ ChanClosed \notin {received[i] : i \in 1..Len(received)}
          /\ received' = Append(received, ChanClosed)
          /\ UNCHANGED readyCh
    /\ UNCHANGED <<inputVars, ctxVars, pc, wpc, exitCh, conn, closes, pendErr,
                   req, sent, resp, wire, ret, steps, p2pc, resp2, p2err, serveVars, proxyVars,
                   codecVars>>

BindNext ==
    \/ Bind_ConnectProxy \/ Bind_StartWatcher \/ Bind_Watcher
    \/ Bind_SplitHostPort \/ Bind_ParsePort \/ Bind_SendRequest
    \/ Bind_ReadFirstResponse \/ Bind_CheckGranted \/ Bind_CloseOnFailure
    \/ Bind_ReturnError \/ Bind_StartPhase2 \/ Bind_Return
    \/ Bind_Phase2Read \/ Bind_Phase2SendReadErr \/ Bind_Phase2SendRejected
    \/ Bind_Phase2SendNil \/ Bind_Phase2Close \/ Caller_Recv

----------------------------------------------------------------------------
(* Listener: ServeContext *)

Conns == 1..MaxConns

InitServe ==
    /\ spc = "select"
    /\ sctxDone = FALSE
    /\ lis = "open"
    /\ lisClosedBy = {}
    /\ swpc = "wait"
    /\ acceptErrs = 0
    /\ permFail = FALSE
    /\ nconns = 0
    /\ hpc = [c \in Conns |-> "idle"]
    /\ cstate = [c \in Conns |-> "none"]
    /\ cclosedBy = [c \in Conns |-> <<>>]
    /\ fault = [c \in Conns |-> "none"]
    /\ onError = <<>>
    /\ onPanic = <<>>
    /\ crashed = FALSE
    /\ readTimeout \in BOOLEAN
    /\ deadline = [c \in Conns |-> "none"]
    /\ hlog = [c \in Conns |-> <<>>]

\* the external cancellation signal fires
Serve_Cancel ==
    /\ ~crashed /\ spc # "off" /\ ~sctxDone
    /\ sctxDone' = TRUE
    /\ UNCHANGED <<readTimeout, deadline, hlog,
                   spc, lis, lisClosedBy, swpc, acceptErrs, permFail, nconns,
                   hpc, cstate, cclosedBy, fault, onError, onPanic, crashed,
                   dialVars, proxyVars,
                   codecVars>>

\* someone other than ServeContext closes the listener
Serve_ExternalClose ==
    /\ ~crashed /\ spc # "off" /\ lis = "open"
    /\ lis' = "closed"
    /\ lisClosedBy' = lisClosedBy \cup {"external"}
    /\ UNCHANGED <<readTimeout, deadline, hlog,
                   spc, sctxDone, swpc, acceptErrs, permFail, nconns, hpc,
                   cstate, cclosedBy, fault, onError, onPanic, crashed, dialVars, proxyVars,
                   codecVars>>

\* the goroutine waits for ctx.Done() but leaves the listener open
Serve_Watcher_NoClose ==
    /\ ~crashed /\ swpc = "wait" /\ sctxDone
    /\ swpc' = "done"
    /\ UNCHANGED <<readTimeout, deadline, hlog,
                   spc, sctxDone, lis, lisClosedBy, acceptErrs, permFail, nconns,
                   hpc, cstate, cclosedBy, fault, onError, onPanic, crashed,
                   dialVars, proxyVars,
                   codecVars>>

\* go func() { <-ctx.Done(); listener.Close() }()
Serve_Watcher ==
    /\ ~crashed /\ swpc = "wait" /\ sctxDone
    /\ lis' = "closed"
    /\ lisClosedBy' = lisClosedBy \cup {"watcher"}
    /\ swpc' = "done"
    /\ UNCHANGED <<readTimeout, deadline, hlog,
                   spc, sctxDone, acceptErrs, permFail, nconns, hpc, cstate,
                   cclosedBy, fault, onError, onPanic, crashed, dialVars, proxyVars,
                   codecVars>>

\* select { case <-ctx.Done(): return nil; default: ... listener.Accept() }
Serve_Select ==
    /\ ~crashed /\ spc = "select"
    /\ spc' = IF sctxDone THEN "returned" ELSE "accept"
    /\ UNCHANGED <<readTimeout, deadline, hlog,
                   sctxDone, lis, lisClosedBy, swpc, acceptErrs, permFail,
                   nconns, hpc, cstate, cclosedBy, fault, onError, onPanic,
                   crashed, dialVars, proxyVars,
                   codecVars>>

\* Accept returns a connection; go func() { ... }() handles it; next iteration
Serve_AcceptConn ==
    /\ ~crashed /\ spc = "accept" /\ lis = "open" /\ nconns < MaxConns
    /\ nconns' = nconns + 1
    /\ cstate' = [cstate EXCEPT ![nconns + 1] = "open"]
    /\ hpc' = [hpc EXCEPT ![nconns + 1] = "onaccept"]
    /\ spc' = "select"
    /\ UNCHANGED <<readTimeout, deadline, hlog,
                   sctxDone, lis, lisClosedBy, swpc, acceptErrs, permFail,
                   cclosedBy, fault, onError, onPanic, crashed, dialVars, proxyVars,
                   codecVars>>

\* Accept returned err: opts.OnError(ctx, opts, nil, err); continue
AcceptFailed ==
    /\ acceptErrs' = IF acceptErrs < MaxAcceptErrs THEN acceptErrs + 1 ELSE acceptErrs
    /\ permFail' = (permFail \/ (lis = "closed" /\ ~sctxDone))
    /\ spc' = "select"
    /\ UNCHANGED <<readTimeout, deadline, hlog,
                   sctxDone, lis, lisClosedBy, swpc, nconns, hpc, cstate,
                   cclosedBy, fault, onError, onPanic, crashed, dialVars, proxyVars,
                   codecVars>>

\* Accept on a closed listener fails at once, and on every later call
Serve_AcceptClosed ==
    /\ ~crashed /\ spc = "accept" /\ lis = "closed"
    /\ AcceptFailed

\* Accept on an open listener fails with a transient error
Serve_AcceptTransient ==
    /\ ~crashed /\ spc = "accept" /\ lis = "open"
    /\ AcceptFailed

\* the error is reported twice
HandlerError_Twice(c, step) ==
    /\ onError' = onError \o <<<<c, step>>, <<c, step>>>>
    /\ fault' = [fault EXCEPT ![c] = "error"]
    /\ hpc' = [hpc EXCEPT ![c] = "defer"]

\* a step of the goroutine handling c returned an error:
\* opts.OnError(ctx, opts, conn, err); return
HandlerError(c, step) ==
    /\ onError' = Append(onError, <<c, step>>)
    /\ fault' = [fault EXCEPT ![c] = "error"]
    /\ hpc' = [hpc EXCEPT ![c] = "defer"]

\* the panic of a step is swallowed: the deferred function finds nothing to
\* recover
HandlerPanic_Swallowed(c) ==
    /\ hpc' = [hpc EXCEPT ![c] = "defer"]
    /\ UNCHANGED <<fault, onError>>

\* a step of the goroutine handling c panicked: its deferred function runs
HandlerPanic(c) ==
    /\ fault' = [fault EXCEPT ![c] = "panic"]
    /\ hpc' = [hpc EXCEPT ![c] = "defer"]
    /\ UNCHANGED onError

Outcomes == {"ok", "err", "panic"}

\* what a step that ended with out adds to the history of its goroutine
Logged(step, out) ==
    IF out = "err" THEN <<<<step, out>>, <<"onerror", step>>>> ELSE <<<<step, out>>>>

\* an error of on-accept is reported, but the goroutine does not return
Serve_OnAccept_NoReturn(c) ==
    /\ ~crashed /\ hpc[c] = "onaccept"
    /\ \E out \in Outcomes :
        /\ hlog' = [hlog EXCEPT ![c] = @ \o Logged("onaccept", out)]
        /\ CASE out = "ok" -> /\ hpc' = [hpc EXCEPT ![c] = "read"]
                              /\ UNCHANGED <<fault, onError>>
             [] out = "err" -> /\ onError' = Append(onError, <<c, "onaccept">>)
                               /\ hpc' = [hpc EXCEPT ![c] = "read"]
                               /\ UNCHANGED fault
             [] out = "panic" -> HandlerPanic(c)
    /\ UNCHANGED <<readTimeout, deadline, spc, sctxDone, lis, lisClosedBy, swpc,
                   acceptErrs, permFail, nconns, cstate, cclosedBy, onPanic,
                   crashed, dialVars, proxyVars, codecVars>>

\* opts.OnAccept(ctx, opts, conn)
Serve_OnAccept(c) ==
    /\ ~crashed /\ hpc[c] = "onaccept"
    /\ \E out \in Outcomes :
        /\ hlog' = [hlog EXCEPT ![c] = @ \o Logged("onaccept", out)]
        /\ CASE out = "ok" -> /\ hpc' = [hpc EXCEPT ![c] = "read"]
                              /\ UNCHANGED <<fault, onError>>
             [] out = "err" -> HandlerError(c, "onaccept")
             [] out = "panic" -> HandlerPanic(c)
    /\ UNCHANGED <<readTimeout, deadline, spc, sctxDone, lis, lisClosedBy, swpc,
                   acceptErrs, permFail, nconns, cstate, cclosedBy, onPanic,
                   crashed, dialVars, proxyVars, codecVars>>

\* if reqTimeout { conn.SetReadDeadline(time.Now().Add(opts.RequestReadTimeout)) }
Serve_SetDeadline(c) ==
    /\ ~crashed /\ hpc[c] = "read"
    /\ IF readTimeout
       THEN /\ deadline' = [deadline EXCEPT ![c] = "set"]
            /\ hlog' = [hlog EXCEPT ![c] = Append(@, <<"setdeadline", "ok">>)]
       ELSE UNCHANGED <<deadline, hlog>>
    /\ hpc' = [hpc EXCEPT ![c] = "decode"]
    /\ UNCHANGED <<readTimeout, spc, sctxDone, lis, lisClosedBy, swpc, acceptErrs,
                   permFail, nconns, cstate, cclosedBy, fault, onError, onPanic,
                   crashed, dialVars, proxyVars, codecVars>>

\* req.ReadFrom(conn)
Serve_ReadRequest(c) ==
    /\ ~crashed /\ hpc[c] = "decode"
    /\ \E out \in Outcomes :
        /\ hlog' = [hlog EXCEPT ![c] = @ \o Logged("read", out)]
        /\ CASE out = "ok" -> /\ hpc' = [hpc EXCEPT ![c] = "clear"]
                              /\ UNCHANGED <<fault, onError>>
             [] out = "err" -> HandlerError(c, "read")
             [] out = "panic" -> HandlerPanic(c)
    /\ UNCHANGED <<readTimeout, deadline, spc, sctxDone, lis, lisClosedBy, swpc,
                   acceptErrs, permFail, nconns, cstate, cclosedBy, onPanic,
                   crashed, dialVars, proxyVars, codecVars>>

\* the deadline is left in place after the request has been read
Serve_ClearDeadline_Kept(c) ==
    /\ ~crashed /\ hpc[c] = "clear"
    /\ hpc' = [hpc EXCEPT ![c] = "onrequest"]
    /\ UNCHANGED <<readTimeout, deadline, hlog, spc, sctxDone, lis, lisClosedBy,
                   swpc, acceptErrs, permFail, nconns, cstate, cclosedBy, fault,
                   onError, onPanic, crashed, dialVars, proxyVars, codecVars>>

\* if reqTimeout { conn.SetReadDeadline(time.Time{}) }
Serve_ClearDeadline(c) ==
    /\ ~crashed /\ hpc[c] = "clear"
    /\ IF readTimeout
       THEN /\ deadline' = [deadline EXCEPT ![c] = "none"]
            /\ hlog' = [hlog EXCEPT ![c] = Append(@, <<"cleardeadline", "ok">>)]
       ELSE UNCHANGED <<deadline, hlog>>
    /\ hpc' = [hpc EXCEPT ![c] = "onrequest"]
    /\ UNCHANGED <<readTimeout, spc, sctxDone, lis, lisClosedBy, swpc, acceptErrs,
                   permFail, nconns, cstate, cclosedBy, fault, onError, onPanic,
                   crashed, dialVars, proxyVars, codecVars>>

\* opts.OnRequest(ctx, opts, conn, &req)
Serve_OnRequest(c) ==
    /\ ~crashed /\ hpc[c] = "onrequest"
    /\ \E out \in Outcomes :
        /\ hlog' = [hlog EXCEPT ![c] = @ \o Logged("onrequest", out)]
        /\ CASE out = "ok" -> /\ hpc' = [hpc EXCEPT ![c] = "defer"]
                              /\ UNCHANGED <<fault, onError>>
             [] out = "err" -> HandlerError(c, "onrequest")
             [] out = "panic" -> HandlerPanic(c)
    /\ UNCHANGED <<readTimeout, deadline, spc, sctxDone, lis, lisClosedBy, swpc,
                   acceptErrs, permFail, nconns, cstate, cclosedBy, onPanic,
                   crashed, dialVars, proxyVars, codecVars>>

\* what the deferred function of the goroutine handling c adds to its history
\* (the value recovered is told by the step that panicked)
DeferLogged(c) ==
    (IF fault[c] = "panic" THEN <<<<"onpanic", hlog[c][Len(hlog[c])][1]>>>> ELSE <<>>)
        \o <<<<"close", "ok">>>>

\* a deferred function without recover(): the panic takes the process down
Serve_Deferred_NoRecover(c) ==
    /\ ~crashed /\ hpc[c] = "defer"
    /\ IF fault[c] = "panic"
       THEN /\ crashed' = TRUE
            /\ UNCHANGED <<onPanic, cstate, cclosedBy, hpc, hlog>>
       ELSE /\ cstate' = [cstate EXCEPT ![c] = "closed"]
            /\ cclosedBy' = [cclosedBy EXCEPT ![c] = Append(@, c)]
            /\ hpc' = [hpc EXCEPT ![c] = "done"]
            /\ hlog' = [hlog EXCEPT ![c] = @ \o DeferLogged(c)]
            /\ UNCHANGED <<onPanic, crashed>>
    /\ UNCHANGED <<readTimeout, deadline, spc, sctxDone, lis, lisClosedBy, swpc,
                   acceptErrs, permFail, nconns, fault, onError, dialVars,
                   proxyVars, codecVars>>

\* a deferred function that closes the connection only after a clean run
Serve_Deferred_CloseOnSuccess(c) ==
    /\ ~crashed /\ hpc[c] = "defer"
    /\ onPanic' = IF fault[c] = "panic" THEN Append(onPanic, c) ELSE onPanic
    /\ cstate' = [cstate EXCEPT ![c] = IF fault[c] = "none" THEN "closed" ELSE @]
    /\ cclosedBy' = [cclosedBy EXCEPT ![c] = IF fault[c] = "none" THEN Append(@, c) ELSE @]
    /\ hpc' = [hpc EXCEPT ![c] = "done"]
    /\ hlog' = [hlog EXCEPT ![c] = IF fault[c] = "none" THEN @ \o DeferLogged(c) ELSE @]
    /\ UNCHANGED <<readTimeout, deadline, spc, sctxDone, lis, lisClosedBy, swpc,
                   acceptErrs, permFail, nconns, fault, onError, crashed, dialVars,
                   proxyVars, codecVars>>

\* defer func() { if r := recover(); r != nil { opts.OnPanic(...) }; conn.Close() }()
Serve_Deferred(c) ==
    /\ ~crashed /\ hpc[c] = "defer"
    /\ onPanic' = IF fault[c] = "panic" THEN Append(onPanic, c) ELSE onPanic
    /\ cstate' = [cstate EXCEPT ![c] = "closed"]
    /\ cclosedBy' = [cclosedBy EXCEPT ![c] = Append(@, c)]
    /\ hpc' = [hpc EXCEPT ![c] = "done"]
    /\ hlog' = [hlog EXCEPT ![c] = @ \o DeferLogged(c)]
    /\ UNCHANGED <<readTimeout, deadline, spc, sctxDone, lis, lisClosedBy, swpc,
                   acceptErrs, permFail, nconns, fault, onError, crashed, dialVars,
                   proxyVars, codecVars>>

ServeNext ==
    \/ Serve_Cancel \/ Serve_ExternalClose \/ Serve_Watcher \/ Serve_Select
    \/ Serve_AcceptConn \/ Serve_AcceptClosed \/ Serve_AcceptTransient
    \/ \E c \in Conns : Serve_OnAccept(c)
    \/ \E c \in Conns : Serve_SetDeadline(c)
    \/ \E c \in Conns : Serve_ReadRequest(c)
    \/ \E c \in Conns : Serve_ClearDeadline(c)
    \/ \E c \in Conns : Serve_OnRequest(c)
    \/ \E c \in Conns : Serve_Deferred(c)

----------------------------------------------------------------------------
(* Listener: one connection handled with the default hooks *)

ReqGranted == 90
ReqRejected == 91

\* what a client may send as its request: the bytes a Dialer writes for a
\* CONNECT or BIND to an IPv4 or a named host, the same with another version
\* or command byte, and streams that end inside the request
ClientHosts == {"127.0.0.1", "a.b"}
ClientCommands == {0, CmdConnect, CmdBind, 3}
ClientVersions == {SocksVersion, 5}
ClientRequests ==
    {RequestWriteTo([BuildRequest(cm, h, 9999) EXCEPT !.Version = v]) :
        cm \in ClientCommands, h \in ClientHosts, v \in ClientVersions}
ClientStreams ==
    ClientRequests \cup {<<>>, <<4, 1, 39>>, <<4, 1, 39, 15, 127, 0, 0, 1, 117>>}

\* the payload the client sends through the tunnel: bytes 1, 2, ..
Payload == [i \in 1..MaxPayload |-> i]

\* what a destination that speaks first writes when it is connected
Greeting == <<200>>

IsPrefix(a, b) == Len(a) <= Len(b) /\ a = SubSeq(b, 1, Len(a))

InitProxy ==
    /\ gpc = "onaccept" /\ gctxDone = FALSE
    /\ c2p \in ClientStreams /\ cliClosed = FALSE
    /\ greq = ZeroRequest /\ replies = <<>> /\ hookRet = "-" /\ gOnError = <<>>
    /\ gconn = "open" /\ target = "none" /\ tgtClosed = FALSE
    /\ upc = "idle" /\ ubuf = <<>> /\ dpc = "idle" /\ dbuf = <<>> /\ errc = <<>>
    /\ cSent = <<>> /\ tIn = <<>> /\ tEcho = 0 /\ t2p = <<>> /\ cIn = <<>>
    /\ p2c = <<>> /\ copyEnds = <<>> /\ tGreet = <<>>

relayVars == <<upc, ubuf, dpc, dbuf, errc, copyEnds, tIn, t2p, cIn>>
peerVars == <<cliClosed, tgtClosed, cSent, tEcho, tGreet>>

\* the listener's context is cancelled
Proxy_Cancel ==
    /\ gpc # "off" /\ ~gctxDone
    /\ gctxDone' = TRUE
    /\ UNCHANGED <<gpc, c2p, greq, replies, hookRet, gOnError, gconn, target,
                   relayVars, peerVars, dialVars, serveVars, codecVars,
                   p2c>>

\* opts.OnAccept = OnAcceptDefault: return nil
Proxy_OnAccept ==
    /\ gpc = "onaccept"
    /\ gpc' = "read"
    /\ UNCHANGED <<gctxDone, c2p, greq, replies, hookRet, gOnError, gconn, target,
                   relayVars, peerVars, dialVars, serveVars, codecVars,
                   p2c>>

\* var req Request; req.ReadFrom(conn): a read past the bytes that arrived
\* returns only when the client has closed. On error OnError is called and
\* the goroutine returns.
Proxy_ReadFrom ==
    /\ gpc = "read"
    /\ LET d == RequestReadFrom(ZeroRequest, c2p)
       IN /\ (d.err \in {"EOF", "ErrUnexpectedEOF"}) => cliClosed
          /\ greq' = d.req
          /\ c2p' = d.src
          /\ IF d.err # "nil"
             THEN /\ gOnError' = Append(gOnError, d.err)
                  /\ gpc' = "defer"
             ELSE /\ gpc' = "onrequest"
                  /\ UNCHANGED gOnError
    /\ UNCHANGED <<gctxDone, replies, hookRet, gconn, target, relayVars,
                   peerVars, dialVars, serveVars, codecVars,
                   p2c>>

\* resp.Init(...); resp.WriteTo(conn): one Write of the 8 bytes of the reply
WriteReply(r) ==
    /\ replies' = Append(replies, ResponseWriteTo(r))
    /\ p2c' = p2c \o ResponseWriteTo(r)

\* what ServeContext does with the value opts.OnRequest returned
OnRequestReturns(err) ==
    /\ hookRet' = err
    /\ gOnError' = IF err # "nil" THEN Append(gOnError, err) ELSE gOnError
    /\ gpc' = "defer"

\* opts.OnRequest = OnRequestDefault: switch req.Command
Proxy_OnRequest ==
    /\ gpc = "onrequest"
    /\ CASE greq.Command = CmdConnect ->
              /\ gpc' = "onconnect"
              /\ UNCHANGED <<replies, hookRet, gOnError,
                   p2c>>
         [] greq.Command = CmdBind ->
              /\ gpc' = "onbind"
              /\ UNCHANGED <<replies, hookRet, gOnError,
                   p2c>>
         [] OTHER ->
              /\ WriteReply(ResponseInit(0, ReqRejected, 0, <<0, 0, 0, 0>>))
              /\ OnRequestReturns("unknown command")
    /\ UNCHANGED <<gctxDone, c2p, greq, gconn, target, relayVars, peerVars,
                   dialVars, serveVars, codecVars>>

\* OnConnectDefault, dialer.DialContext failed: rejected reply, return error
Proxy_OnConnect_DialFailed ==
    /\ gpc = "onconnect"
    /\ WriteReply(ResponseInit(0, ReqRejected, greq.Port, greq.IP))
    /\ target' = "failed"
    /\ OnRequestReturns("connect failed")
    /\ UNCHANGED <<gctxDone, c2p, greq, gconn, relayVars, peerVars,
                   dialVars, serveVars, codecVars>>

\* a handler that grants a CONNECT with a zero address in its reply
Proxy_OnConnect_Dialed_ZeroReply ==
    /\ gpc = "onconnect" /\ ~gctxDone
    /\ target' = "open"
    /\ WriteReply(ResponseInit(0, ReqGranted, 0, <<0, 0, 0, 0>>))
    /\ gpc' = "go_up"
    /\ UNCHANGED <<gctxDone, c2p, greq, hookRet, gOnError, gconn, relayVars,
                   peerVars, dialVars, serveVars, codecVars>>

\* a handler that starts the two copies as soon as the target is dialled and
\* writes the granted reply afterwards
Proxy_OnConnect_Dialed_RelayFirst ==
    /\ gpc = "onconnect" /\ ~gctxDone
    /\ IF target = "none"
       THEN /\ target' = "open"
            /\ upc' = "copy" /\ dpc' = "copy"
            /\ UNCHANGED <<gpc, replies, p2c>>
       ELSE /\ WriteReply(ResponseInit(0, ReqGranted, greq.Port, greq.IP))
            /\ gpc' = "go_up"
            /\ UNCHANGED <<target, upc, dpc>>
    /\ UNCHANGED <<gctxDone, c2p, greq, hookRet, gOnError, gconn, ubuf, dbuf,
                   errc, copyEnds, tIn, t2p, cIn, peerVars, dialVars, serveVars,
                   codecVars>>

\* OnConnectDefault, the target was dialled: defer target.Close(), and the
\* granted reply is written to conn
Proxy_OnConnect_Dialed ==
    /\ gpc = "onconnect" /\ ~gctxDone
    /\ target' = "open"
    /\ WriteReply(ResponseInit(0, ReqGranted, greq.Port, greq.IP))
    /\ gpc' = "go_up"
    /\ UNCHANGED <<gctxDone, c2p, greq, hookRet, gOnError, gconn, relayVars,
                   peerVars, dialVars, serveVars, codecVars>>

\* errc := make(chan error, 2); go func() { io.Copy(target, conn) ... }()
Proxy_OnConnect_GoUp ==
    /\ gpc = "go_up"
    /\ upc' = "copy"
    /\ gpc' = "go_down"
    /\ UNCHANGED <<gctxDone, c2p, greq, replies, p2c, hookRet, gOnError, gconn,
                   target, ubuf, dpc, dbuf, errc, copyEnds, tIn, t2p, cIn,
                   peerVars, dialVars, serveVars, codecVars>>

\* go func() { io.Copy(conn, target) ... }()
Proxy_OnConnect_GoDown ==
    /\ gpc = "go_down"
    /\ dpc' = "copy"
    /\ gpc' = "select"
    /\ UNCHANGED <<gctxDone, c2p, greq, replies, p2c, hookRet, gOnError, gconn,
                   target, upc, ubuf, dbuf, errc, copyEnds, tIn, t2p, cIn,
                   peerVars, dialVars, serveVars, codecVars>>

\* a select that returns only when both copies have ended
Proxy_Select_WaitsForBoth ==
    /\ gpc = "select"
    /\ \/ /\ gctxDone
          /\ OnRequestReturns("context canceled")
          /\ UNCHANGED errc
       \/ /\ Len(errc) = 2
          /\ OnRequestReturns(Head(errc))
          /\ errc' = Tail(errc)
    /\ target' = "closed"
    /\ UNCHANGED <<gctxDone, c2p, greq, replies, p2c, gconn, upc, ubuf, dpc,
                   dbuf, copyEnds, tIn, t2p, cIn, peerVars, dialVars, serveVars,
                   codecVars>>

\* select { case <-ctx.Done(): return ctx.Err(); case err := <-errc: return err }
\* with the deferred target.Close()
Proxy_Select ==
    /\ gpc = "select"
    /\ \/ /\ gctxDone
          /\ OnRequestReturns("context canceled")
          /\ UNCHANGED errc
       \/ /\ errc # <<>>
          /\ OnRequestReturns(Head(errc))
          /\ errc' = Tail(errc)
    /\ target' = "closed"
    /\ UNCHANGED <<gctxDone, c2p, greq, replies, p2c, gconn, upc, ubuf, dpc,
                   dbuf, copyEnds, tIn, t2p, cIn, peerVars, dialVars, serveVars,
                   codecVars>>

\* a handler that answers BIND with a granted reply
Proxy_OnBind_Granted ==
    /\ gpc = "onbind"
    /\ WriteReply(ResponseInit(0, ReqGranted, 0, <<0, 0, 0, 0>>))
    /\ OnRequestReturns("nil")
    /\ UNCHANGED <<gctxDone, c2p, greq, gconn, target, relayVars, peerVars,
                   dialVars, serveVars, codecVars>>

\* OnBindDefault: rejected reply, return nil
Proxy_OnBind ==
    /\ gpc = "onbind"
    /\ WriteReply(ResponseInit(0, ReqRejected, 0, <<0, 0, 0, 0>>))
    /\ OnRequestReturns("nil")
    /\ UNCHANGED <<gctxDone, c2p, greq, gconn, target, relayVars, peerVars,
                   dialVars, serveVars, codecVars>>

\* the deferred function of the goroutine: conn.Close()
Proxy_Deferred ==
    /\ gpc = "defer"
    /\ gconn' = "closed"
    /\ gpc' = "done"
    /\ UNCHANGED <<gctxDone, c2p, greq, replies, hookRet, gOnError, target,
                   relayVars, peerVars, dialVars, serveVars, codecVars,
                   p2c>>

\* errc := make(chan error, 2)
ErrcCap == 2

\* the same send on a channel with room for one result
CopyEnds_CapOne(err) ==
    /\ Len(errc) < 1
    /\ errc' = Append(errc, err)
    /\ copyEnds' = Append(copyEnds, err)

\* errc <- err at the end of a copying goroutine: the send blocks while the
\* buffer is full
CopyEnds(err) ==
    /\ Len(errc) < ErrcCap
    /\ errc' = Append(errc, err)
    /\ copyEnds' = Append(copyEnds, err)

\* io.Copy(target, conn), one Read of conn: some of the bytes that arrived,
\* io.EOF (Copy returns nil) when the client closed, an error after
\* conn.Close()
Relay_UpRead ==
    /\ upc = "copy" /\ ubuf = <<>>
    /\ \/ /\ gconn = "closed"
          /\ CopyEnds("use of closed network connection")
          /\ upc' = "done"
          /\ UNCHANGED <<ubuf, c2p>>
       \/ /\ gconn = "open" /\ c2p # <<>>
          /\ \E k \in 1..Len(c2p) :
                /\ ubuf' = SubSeq(c2p, 1, k)
                /\ c2p' = SubSeq(c2p, k + 1, Len(c2p))
          /\ UNCHANGED <<errc, upc,
                   copyEnds>>
       \/ /\ gconn = "open" /\ c2p = <<>> /\ cliClosed
          /\ CopyEnds("nil")
          /\ upc' = "done"
          /\ UNCHANGED <<ubuf, c2p>>
    /\ UNCHANGED <<gpc, gctxDone, greq, replies, hookRet, gOnError, gconn, target,
                   dpc, dbuf, tIn, t2p, cIn, peerVars, dialVars, serveVars,
                   codecVars,
                   p2c>>

\* a copy that loses the first byte of every chunk it writes
Relay_UpWrite_Lossy ==
    /\ upc = "copy" /\ ubuf # <<>>
    /\ IF target = "open" /\ ~tgtClosed
       THEN /\ tIn' = tIn \o Tail(ubuf)
            /\ UNCHANGED <<errc, upc,
                   copyEnds>>
       ELSE /\ CopyEnds("write failed")
            /\ upc' = "done"
            /\ UNCHANGED tIn
    /\ ubuf' = <<>>
    /\ UNCHANGED <<gpc, gctxDone, c2p, greq, replies, hookRet, gOnError, gconn,
                   target, dpc, dbuf, t2p, cIn, peerVars, dialVars, serveVars,
                   codecVars,
                   p2c>>

\* io.Copy(target, conn), the Write of what was read: to the destination, or
\* an error that ends the copy when the target connection is closed
Relay_UpWrite ==
    /\ upc = "copy" /\ ubuf # <<>>
    /\ IF target = "open" /\ ~tgtClosed
       THEN /\ tIn' = tIn \o ubuf
            /\ UNCHANGED <<errc, upc,
                   copyEnds>>
       ELSE /\ CopyEnds("write failed")
            /\ upc' = "done"
            /\ UNCHANGED tIn
    /\ ubuf' = <<>>
    /\ UNCHANGED <<gpc, gctxDone, c2p, greq, replies, hookRet, gOnError, gconn,
                   target, dpc, dbuf, t2p, cIn, peerVars, dialVars, serveVars,
                   codecVars,
                   p2c>>

\* io.Copy(conn, target), one Read of target
Relay_DownRead ==
    /\ dpc = "copy" /\ dbuf = <<>>
    /\ \/ /\ target = "closed"
          /\ CopyEnds("use of closed network connection")
          /\ dpc' = "done"
          /\ UNCHANGED <<dbuf, t2p>>
       \/ /\ target = "open" /\ t2p # <<>>
          /\ \E k \in 1..Len(t2p) :
                /\ dbuf' = SubSeq(t2p, 1, k)
                /\ t2p' = SubSeq(t2p, k + 1, Len(t2p))
          /\ UNCHANGED <<errc, dpc,
                   copyEnds>>
       \/ /\ target = "open" /\ t2p = <<>> /\ tgtClosed
          /\ CopyEnds("nil")
          /\ dpc' = "done"
          /\ UNCHANGED <<dbuf, t2p>>
    /\ UNCHANGED <<gpc, gctxDone, c2p, greq, replies, hookRet, gOnError, gconn,
                   target, upc, ubuf, tIn, cIn, peerVars, dialVars, serveVars,
                   codecVars,
                   p2c>>

\* io.Copy(conn, target), the Write of what was read
Relay_DownWrite ==
    /\ dpc = "copy" /\ dbuf # <<>>
    /\ IF gconn = "open" /\ ~cliClosed
       THEN /\ cIn' = cIn \o dbuf
            /\ p2c' = p2c \o dbuf
            /\ UNCHANGED <<errc, copyEnds, dpc>>
       ELSE /\ CopyEnds("write failed")
            /\ dpc' = "done"
            /\ UNCHANGED <<cIn, p2c>>
    /\ dbuf' = <<>>
    /\ UNCHANGED <<gpc, gctxDone, c2p, greq, replies, hookRet, gOnError, gconn,
                   target, upc, ubuf, tIn, t2p, peerVars, dialVars, serveVars,
                   codecVars>>

\* the client has decoded a granted reply, as DialContext does before it
\* returns the tunnel
ClientHasTunnel ==
    /\ replies # <<>>
    /\ LET d == ResponseReadFrom(ZeroResponse, replies[1])
       IN d.err = "nil" /\ IsGranted(d.resp)

\* the client writes the next byte of its payload into the tunnel
Client_Write ==
    /\ ClientHasTunnel /\ ~cliClosed /\ Len(cSent) < MaxPayload
    /\ cSent' = Append(cSent, Payload[Len(cSent) + 1])
    /\ c2p' = Append(c2p, Payload[Len(cSent) + 1])
    /\ UNCHANGED <<gpc, gctxDone, greq, replies, hookRet, gOnError, gconn, target,
                   relayVars, cliClosed, tgtClosed, tEcho, dialVars, serveVars,
                   codecVars,
                   p2c, tGreet>>

\* the client closes the connection
Client_Close ==
    /\ gpc # "off" /\ ~cliClosed
    /\ cliClosed' = TRUE
    /\ UNCHANGED <<gpc, gctxDone, c2p, greq, replies, hookRet, gOnError, gconn,
                   target, relayVars, tgtClosed, cSent, tEcho, dialVars,
                   serveVars, codecVars,
                   p2c, tGreet>>

\* the destination writes a greeting of its own as soon as it is connected
Target_Greet ==
    /\ target \in {"open", "closed"} /\ ~tgtClosed /\ tGreet = <<>> /\ tEcho = 0
    /\ tGreet' = Greeting
    /\ t2p' = t2p \o Greeting
    /\ UNCHANGED <<gpc, gctxDone, c2p, greq, replies, p2c, hookRet, gOnError,
                   gconn, target, upc, ubuf, dpc, dbuf, errc, copyEnds, tIn, cIn,
                   cliClosed, tgtClosed, cSent, tEcho, dialVars, serveVars,
                   codecVars>>

\* the destination echoes more of what it has received: io.Copy(conn, conn)
Target_Echo ==
    /\ target \in {"open", "closed"} /\ ~tgtClosed /\ tEcho < Len(tIn)
    /\ \E k \in 1..(Len(tIn) - tEcho) :
          /\ t2p' = t2p \o SubSeq(tIn, tEcho + 1, tEcho + k)
          /\ tEcho' = tEcho + k
    /\ UNCHANGED <<gpc, gctxDone, c2p, greq, replies, p2c, hookRet, gOnError,
                   gconn, target, upc, ubuf, dpc, dbuf, errc, copyEnds, tIn, cIn,
                   cliClosed, tgtClosed, cSent, tGreet, dialVars, serveVars,
                   codecVars>>

\* the destination closes the connection
Target_Close ==
    /\ target \in {"open", "closed"} /\ ~tgtClosed
    /\ tgtClosed' = TRUE
    /\ UNCHANGED <<gpc, gctxDone, c2p, greq, replies, hookRet, gOnError, gconn,
                   target, relayVars, cliClosed, cSent, tEcho, dialVars,
                   serveVars, codecVars,
                   p2c, tGreet>>

ProxyNext ==
    \/ Proxy_Cancel \/ Proxy_OnAccept \/ Proxy_ReadFrom \/ Proxy_OnRequest
    \/ Proxy_OnConnect_DialFailed \/ Proxy_OnConnect_Dialed
    \/ Proxy_OnConnect_GoUp \/ Proxy_OnConnect_GoDown \/ Proxy_Select
    \/ Proxy_OnBind \/ Proxy_Deferred
    \/ Relay_UpRead \/ Relay_UpWrite \/ Relay_DownRead \/ Relay_DownWrite
    \/ Client_Write \/ Client_Close \/ Target_Greet \/ Target_Echo \/ Target_Close

----------------------------------------------------------------------------
(* SOCKS5 codecs. A decoder yields [n, err, msg, src, reads] as the SOCKS4   *)
(* request decoder does; an encoder yields [n, err, bytes].                  *)

S5_SocksVersion == 5
S5_CmdConnect == 1
S5_CmdBind == 2
S5_CmdUDPAssociate == 3
S5_CmdResolve == 240
S5_CmdResolvePTR == 241
AddrTypeIPv4 == 1
AddrTypeDomain == 3
AddrTypeIPv6 == 4
AuthVersionUserPass == 1
GSSAPITypeInit == 1
GSSAPITypeReply == 2
GSSAPITypeAbort == 255

\* a read that reports success on a short stream and leaves the missing
\* bytes zero
ReadFull_ZeroFill(src, k) ==
    IF Len(src) >= k
    THEN [n |-> k, err |-> "nil", data |-> SubSeq(src, 1, k),
          src |-> SubSeq(src, k + 1, Len(src))]
    ELSE [n |-> Len(src), err |-> "nil",
          data |-> src \o [i \in 1..(k - Len(src)) |-> 0], src |-> <<>>]

\* io.ReadFull(src, buf) with len(buf) = k on a stream that delivers src and
\* then ends
ReadFull(src, k) ==
    IF Len(src) >= k
    THEN [n |-> k, err |-> "nil", data |-> SubSeq(src, 1, k),
          src |-> SubSeq(src, k + 1, Len(src))]
    ELSE [n |-> Len(src), err |-> IF Len(src) = 0 THEN "EOF" ELSE "ErrUnexpectedEOF",
          data |-> src, src |-> <<>>]

\* a net.IP is its byte slice; <<>> is the nil IP
V4InV6Prefix == <<0, 0, 0, 0, 0, 0, 0, 0, 0, 0, 255, 255>>

\* net.IP.To4: the 4-byte form of an IPv4 address, nil for anything else
To4(ip) ==
    IF Len(ip) = 4 THEN ip
    ELSE IF Len(ip) = 16 /\ SubSeq(ip, 1, 12) = V4InV6Prefix THEN SubSeq(ip, 13, 16)
    ELSE <<>>

\* net.IP.To16: the 16-byte form, nil when the length is neither 4 nor 16
To16(ip) ==
    IF Len(ip) = 4 THEN V4InV6Prefix \o ip
    ELSE IF Len(ip) = 16 THEN ip
    ELSE <<>>

Encoded(bytes) == [n |-> Len(bytes), err |-> "nil", bytes |-> bytes]
NotEncoded(err) == [n |-> 0, err |-> err, bytes |-> <<>>]

\* the result of a decoder that has consumed n bytes
Decoded(n, err, m, src, reads) ==
    [n |-> n, err |-> err, msg |-> m, src |-> src, reads |-> reads]

(* HandshakeRequest *)

ZeroHandshakeRequest == [Version |-> 0, NMethods |-> 0, Methods |-> <<>>]

\* HandshakeRequest.Init: NMethods is byte(len(methods))
HandshakeRequestInit(version, methods) ==
    [Version |-> version, NMethods |-> Len(methods) % 256, Methods |-> methods]

HandshakeRequestValidate(h) ==
    IF h.Version # S5_SocksVersion THEN "ErrInvalidHandshakeVersion"
    ELSE IF h.NMethods = 0 THEN "ErrNoMethodsProvided"
    ELSE IF Len(h.Methods) # h.NMethods THEN "ErrTooManyMethods"
    ELSE "nil"

HandshakeRequestReadFrom(h, src) ==
    LET hdr == ReadFull(src, 2)
        h1 == [h EXCEPT !.Version = hdr.data[1], !.NMethods = hdr.data[2]]
        ms == ReadFull(hdr.src, h1.NMethods)
        h2 == [h1 EXCEPT !.Methods = ms.data]
    IN IF hdr.err # "nil" THEN Decoded(hdr.n, hdr.err, h, hdr.src, <<"header">>)
       ELSE IF h1.NMethods = 0
       THEN Decoded(2, "ErrNoMethodsProvided", h1, hdr.src, <<"header">>)
       ELSE IF ms.err # "nil"
       THEN Decoded(2 + ms.n, ms.err, h1, ms.src, <<"header", "methods">>)
       ELSE Decoded(2 + ms.n, HandshakeRequestValidate(h2), h2, ms.src,
                    <<"header", "methods">>)

HandshakeRequestWriteTo(h) == Encoded(<<h.Version, h.NMethods>> \o h.Methods)

(* HandshakeReply *)

ZeroHandshakeReply == [Version |-> 0, Method |-> 0]

HandshakeReplyValidate(h) ==
    IF h.Version # S5_SocksVersion THEN "ErrInvalidHandshakeReplyVersion" ELSE "nil"

HandshakeReplyReadFrom(h, src) ==
    LET hdr == ReadFull(src, 2)
        h1 == [h EXCEPT !.Version = hdr.data[1], !.Method = hdr.data[2]]
    IN IF hdr.err # "nil" THEN Decoded(hdr.n, hdr.err, h, hdr.src, <<"header">>)
       ELSE Decoded(2, HandshakeReplyValidate(h1), h1, hdr.src, <<"header">>)

HandshakeReplyWriteTo(h) == Encoded(<<h.Version, h.Method>>)

(* Request and the address union it shares with Reply and UDPPacket *)

ZeroS5Request == [Version |-> 0, Command |-> 0, Reserved |-> 0, AddrType |-> 0,
                  IP |-> <<>>, Domain |-> <<>>, Port |-> 0]

S5RequestValidateHeader(r) ==
    IF r.Version # S5_SocksVersion THEN "ErrInvalidVersion"
    ELSE IF r.Reserved # 0 THEN "ErrInvalidRSV"
    ELSE IF r.Command \notin {S5_CmdConnect, S5_CmdBind, S5_CmdUDPAssociate,
                              S5_CmdResolve, S5_CmdResolvePTR}
    THEN "ErrInvalidCommand"
    ELSE IF r.AddrType \notin {AddrTypeIPv4, AddrTypeDomain, AddrTypeIPv6}
    THEN "ErrInvalidAddr"
    ELSE "nil"

S5RequestValidate(r) ==
    IF S5RequestValidateHeader(r) # "nil" THEN S5RequestValidateHeader(r)
    ELSE IF r.AddrType = AddrTypeDomain
    THEN IF Len(r.Domain) = 0 \/ Len(r.Domain) > 255 THEN "ErrInvalidDomain" ELSE "nil"
    ELSE IF r.IP = <<>> THEN "ErrInvalidAddr" ELSE "nil"

\* the address and the port as ReadFrom reads them once the header is in m:
\* 4 or 16 address bytes, or a length byte and that many domain bytes, then
\* DST.PORT; any other address type reads the port only
ReadAddrPort(m, src, n0, reads0) ==
    LET a == ReadFull(src, IF m.AddrType = AddrTypeIPv4 THEN 4
                           ELSE IF m.AddrType = AddrTypeIPv6 THEN 16 ELSE 1)
        d == ReadFull(a.src, a.data[1])
        isIP == m.AddrType \in {AddrTypeIPv4, AddrTypeIPv6}
        isDom == m.AddrType = AddrTypeDomain
        m1 == IF isIP THEN [m EXCEPT !.IP = a.data]
              ELSE IF isDom THEN [m EXCEPT !.Domain = d.data]
              ELSE m
        n1 == IF isIP THEN n0 + a.n ELSE IF isDom THEN n0 + a.n + d.n ELSE n0
        src1 == IF isIP THEN a.src ELSE IF isDom THEN d.src ELSE src
        reads1 == IF isIP \/ isDom THEN Append(reads0, "address") ELSE reads0
        p == ReadFull(src1, 2)
    IN IF (isIP \/ isDom) /\ a.err # "nil"
       THEN Decoded(n0 + a.n, a.err, m, a.src, reads1)
       ELSE IF isDom /\ d.err # "nil"
       THEN Decoded(n1, d.err, m, d.src, reads1)
       ELSE IF p.err # "nil"
       THEN Decoded(n1 + p.n, p.err, m1, p.src, Append(reads1, "port"))
       ELSE Decoded(n1 + 2, "nil", [m1 EXCEPT !.Port = p.data[1] * 256 + p.data[2]],
                    p.src, Append(reads1, "port"))

S5RequestReadFrom(r, src) ==
    LET hdr == ReadFull(src, 4)
        r1 == [r EXCEPT !.Version = hdr.data[1], !.Command = hdr.data[2],
                        !.Reserved = hdr.data[3], !.AddrType = hdr.data[4]]
        t == ReadAddrPort(r1, hdr.src, 4, <<"header">>)
    IN IF hdr.err # "nil" THEN Decoded(hdr.n, hdr.err, r, hdr.src, <<"header">>)
       ELSE IF S5RequestValidateHeader(r1) # "nil"
       THEN Decoded(4, S5RequestValidateHeader(r1), r1, hdr.src, <<"header">>)
       ELSE IF t.err # "nil" THEN t
       ELSE [t EXCEPT !.err = S5RequestValidate(t.msg)]

\* the address bytes WriteTo puts after the header: r.IP.To4(), r.IP.To16(),
\* or byte(len(domain)) and the domain; nothing for another address type
WriteAddr(m) ==
    IF m.AddrType = AddrTypeIPv4 THEN To4(m.IP)
    ELSE IF m.AddrType = AddrTypeIPv6 THEN To16(m.IP)
    ELSE IF m.AddrType = AddrTypeDomain THEN <<Len(m.Domain) % 256>> \o m.Domain
    ELSE <<>>

PortBytes(port) == <<port \div 256, port % 256>>

\* a WriteTo that finds the bad domain after it has written the header
S5RequestWriteTo_HeaderFirst(r) ==
    IF r.AddrType = AddrTypeDomain /\ (Len(r.Domain) = 0 \/ Len(r.Domain) > 255)
    THEN [n |-> 4, err |-> "ErrInvalidReplyDomain",
          bytes |-> <<r.Version, r.Command, r.Reserved, r.AddrType>>]
    ELSE Encoded(<<r.Version, r.Command, r.Reserved, r.AddrType>>
                    \o WriteAddr(r) \o PortBytes(r.Port))

S5RequestWriteTo(r) ==
    IF r.AddrType = AddrTypeDomain /\ (Len(r.Domain) = 0 \/ Len(r.Domain) > 255)
    THEN NotEncoded("ErrInvalidReplyDomain")
    ELSE Encoded(<<r.Version, r.Command, r.Reserved, r.AddrType>>
                    \o WriteAddr(r) \o PortBytes(r.Port))

(* Reply *)

ZeroS5Reply == [Version |-> 0, Reply |-> 0, Reserved |-> 0, AddrType |-> 0,
                IP |-> <<>>, Domain |-> <<>>, Port |-> 0]

S5ReplyValidateHeader(r) ==
    IF r.Version # S5_SocksVersion THEN "ErrInvalidReplyVersion"
    ELSE IF r.Reserved # 0 THEN "ErrInvalidReplyRSV"
    ELSE IF r.AddrType \notin {AddrTypeIPv4, AddrTypeDomain, AddrTypeIPv6}
    THEN "ErrInvalidReplyAddr"
    ELSE "nil"

S5ReplyValidate(r) ==
    IF S5ReplyValidateHeader(r) # "nil" THEN S5ReplyValidateHeader(r)
    ELSE IF r.AddrType = AddrTypeDomain
    THEN IF Len(r.Domain) = 0 \/ Len(r.Domain) > 255
         THEN "ErrInvalidReplyDomain" ELSE "nil"
    ELSE IF r.IP = <<>> THEN "ErrInvalidReplyAddr" ELSE "nil"

S5ReplyReadFrom(r, src) ==
    LET hdr == ReadFull(src, 4)
        r1 == [r EXCEPT !.Version = hdr.data[1], !.Reply = hdr.data[2],
                        !.Reserved = hdr.data[3], !.AddrType = hdr.data[4]]
        t == ReadAddrPort(r1, hdr.src, 4, <<"header">>)
    IN IF hdr.err # "nil" THEN Decoded(hdr.n, hdr.err, r, hdr.src, <<"header">>)
       ELSE IF S5ReplyValidateHeader(r1) # "nil"
       THEN Decoded(4, S5ReplyValidateHeader(r1), r1, hdr.src, <<"header">>)
       ELSE IF t.err # "nil" THEN t
       ELSE [t EXCEPT !.err = S5ReplyValidate(t.msg)]

S5ReplyWriteTo(r) ==
    IF S5ReplyValidate(r) # "nil" THEN NotEncoded(S5ReplyValidate(r))
    ELSE Encoded(<<r.Version, r.Reply, r.Reserved, r.AddrType>>
                    \o WriteAddr(r) \o PortBytes(r.Port))

(* UserPassRequest and UserPassReply *)

ZeroUserPassRequest == [Version |-> 0, Username |-> <<>>, Password |-> <<>>]

UserPassRequestValidate(r) ==
    IF r.Version # AuthVersionUserPass THEN "ErrInvalidUserPassVersion"
    ELSE IF Len(r.Username) = 0 THEN "ErrEmptyUserPassUsername"
    ELSE IF Len(r.Password) = 0 THEN "ErrEmptyUserPassPassword"
    ELSE IF Len(r.Username) > 255 \/ Len(r.Password) > 255 THEN "ErrUserPassTooLong"
    ELSE "nil"

UserPassRequestReadFrom(r, src) ==
    LET hdr == ReadFull(src, 2)
        r1 == [r EXCEPT !.Version = hdr.data[1]]
        u == ReadFull(hdr.src, hdr.data[2])
        r2 == [r1 EXCEPT !.Username = u.data]
        pl == ReadFull(u.src, 1)
        pw == ReadFull(pl.src, pl.data[1])
        r3 == [r2 EXCEPT !.Password = pw.data]
    IN IF hdr.err # "nil" THEN Decoded(hdr.n, hdr.err, r, hdr.src, <<"header">>)
       ELSE IF hdr.data[2] = 0
       THEN Decoded(2, "ErrEmptyUserPassUsername", r1, hdr.src, <<"header">>)
       ELSE IF u.err # "nil"
       THEN Decoded(2 + u.n, u.err, r1, u.src, <<"header", "username">>)
       ELSE IF pl.err # "nil"
       THEN Decoded(2 + u.n + pl.n, pl.err, r2, pl.src,
                    <<"header", "username", "plen">>)
       ELSE IF pl.data[1] = 0
       THEN Decoded(2 + u.n + 1, "ErrEmptyUserPassPassword", r2, pl.src,
                    <<"header", "username", "plen">>)
       ELSE IF pw.err # "nil"
       THEN Decoded(2 + u.n + 1 + pw.n, pw.err, r2, pw.src,
                    <<"header", "username", "plen", "password">>)
       ELSE Decoded(2 + u.n + 1 + pw.n, UserPassRequestValidate(r3), r3, pw.src,
                    <<"header", "username", "plen", "password">>)

UserPassRequestWriteTo(r) ==
    IF Len(r.Username) > 255 \/ Len(r.Password) > 255
    THEN NotEncoded("ErrUserPassTooLong")
    ELSE Encoded(<<r.Version, Len(r.Username) % 256>> \o r.Username
                    \o <<Len(r.Password) % 256>> \o r.Password)

ZeroUserPassReply == [Version |-> 0, Status |-> 0]

UserPassReplyValidate(r) ==
    IF r.Version # AuthVersionUserPass THEN "ErrInvalidUserPassReplyVersion" ELSE "nil"

UserPassReplyReadFrom(r, src) ==
    LET hdr == ReadFull(src, 2)
        r1 == [r EXCEPT !.Version = hdr.data[1], !.Status = hdr.data[2]]
    IN IF hdr.err # "nil" THEN Decoded(hdr.n, hdr.err, r, hdr.src, <<"header">>)
       ELSE Decoded(2, UserPassReplyValidate(r1), r1, hdr.src, <<"header">>)

UserPassReplyWriteTo(r) == Encoded(<<r.Version, r.Status>>)

(* GSSAPIRequest and GSSAPIReply: the two types have the same code but for *)
(* the names of their errors                                                *)

ZeroGSSAPI == [Version |-> 0, MsgType |-> 0, Token |-> <<>>]

GSSAPIValidate(r, errVersion, errEmpty, errTooLong) ==
    IF r.Version # 1 THEN errVersion
    ELSE IF r.MsgType = GSSAPITypeAbort THEN "nil"
    ELSE IF Len(r.Token) = 0 THEN errEmpty
    ELSE IF Len(r.Token) > 65535 THEN errTooLong
    ELSE "nil"

GSSAPIRequestValidate(r) ==
    GSSAPIValidate(r, "ErrInvalidGSSAPIVersion", "ErrEmptyGSSAPIToken",
                   "ErrGSSAPITokenTooLong")

GSSAPIReplyValidate(r) ==
    GSSAPIValidate(r, "ErrInvalidGSSAPIReplyVersion", "ErrEmptyGSSAPIReplyToken",
                   "ErrGSSAPIReplyTooLong")

\* ReadFrom: an abort message ends after its two bytes, without Validate
GSSAPIReadFrom(r, src, errEmpty, validate) ==
    LET hdr == ReadFull(src, 2)
        r1 == [r EXCEPT !.Version = hdr.data[1], !.MsgType = hdr.data[2]]
        ln == ReadFull(hdr.src, 2)
        length == ln.data[1] * 256 + ln.data[2]
        tk == ReadFull(ln.src, length)
        r2 == [r1 EXCEPT !.Token = tk.data]
    IN IF hdr.err # "nil" THEN Decoded(hdr.n, hdr.err, r, hdr.src, <<"header">>)
       ELSE IF r1.MsgType = GSSAPITypeAbort
       THEN Decoded(2, "nil", r1, hdr.src, <<"header">>)
       ELSE IF ln.err # "nil"
       THEN Decoded(2 + ln.n, ln.err, r1, ln.src, <<"header", "length">>)
       ELSE IF length = 0
       THEN Decoded(4, errEmpty, r1, ln.src, <<"header", "length">>)
       ELSE IF tk.err # "nil"
       THEN Decoded(4 + tk.n, tk.err, r1, tk.src, <<"header", "length", "token">>)
       ELSE Decoded(4 + tk.n, IF validate = "request" THEN GSSAPIRequestValidate(r2)
                                  ELSE GSSAPIReplyValidate(r2),
                    r2, tk.src, <<"header", "length", "token">>)

GSSAPIRequestReadFrom(r, src) == GSSAPIReadFrom(r, src, "ErrEmptyGSSAPIToken", "request")
GSSAPIReplyReadFrom(r, src) == GSSAPIReadFrom(r, src, "ErrEmptyGSSAPIReplyToken", "reply")

GSSAPIWrite(r) ==
    IF r.MsgType = GSSAPITypeAbort
    THEN Encoded(<<r.Version, r.MsgType>>)
    ELSE Encoded(<<r.Version, r.MsgType, (Len(r.Token) % 65536) \div 256,
                   Len(r.Token) % 256>> \o r.Token)

GSSAPIRequestWriteTo(r) ==
    IF GSSAPIRequestValidate(r) # "nil" THEN NotEncoded(GSSAPIRequestValidate(r))
    ELSE GSSAPIWrite(r)

GSSAPIReplyWriteTo(r) ==
    IF GSSAPIReplyValidate(r) # "nil" THEN NotEncoded(GSSAPIReplyValidate(r))
    ELSE GSSAPIWrite(r)

(* UDPPacket *)

ZeroUDPPacket == [Reserved |-> <<0, 0>>, Frag |-> 0, AddrType |-> 0, IP |-> <<>>,
                  Domain |-> <<>>, Port |-> 0, Data |-> <<>>]

UDPPacketValidateHeader(p) ==
    IF p.Reserved # <<0, 0>> THEN "ErrInvalidUDPReserved"
    ELSE IF p.Frag # 0 THEN "ErrUnsupportedFrag"
    ELSE IF p.AddrType \notin {AddrTypeIPv4, AddrTypeIPv6, AddrTypeDomain}
    THEN "ErrInvalidUDPAddrType"
    ELSE "nil"

UDPPacketValidate(p) ==
    IF p.Reserved # <<0, 0>> THEN "ErrInvalidUDPReserved"
    ELSE IF p.Frag # 0 THEN "ErrUnsupportedFrag"
    ELSE IF p.AddrType \in {AddrTypeIPv4, AddrTypeIPv6} /\ p.IP = <<>>
    THEN "ErrInvalidUDPAddrType"
    ELSE IF p.AddrType = AddrTypeDomain /\ (Len(p.Domain) = 0 \/ Len(p.Domain) > 255)
    THEN "ErrInvalidUDPDomain"
    ELSE IF p.AddrType \notin {AddrTypeIPv4, AddrTypeIPv6, AddrTypeDomain}
    THEN "ErrInvalidUDPAddrType"
    ELSE IF Len(p.Data) = 0 THEN "ErrMissingUDPData"
    ELSE "nil"

\* ReadFrom: header, address, port, and io.ReadAll for DATA
UDPPacketReadFrom(p, src) ==
    LET hdr == ReadFull(src, 4)
        p1 == [p EXCEPT !.Reserved = SubSeq(hdr.data, 1, 2), !.Frag = hdr.data[3],
                        !.AddrType = hdr.data[4]]
        t == ReadAddrPort(p1, hdr.src, 4, <<"header">>)
        p2 == [t.msg EXCEPT !.Data = t.src]
    IN IF hdr.err # "nil" THEN Decoded(hdr.n, hdr.err, p, hdr.src, <<"header">>)
       ELSE IF UDPPacketValidateHeader(p1) # "nil"
       THEN Decoded(4, UDPPacketValidateHeader(p1), p1, hdr.src, <<"header">>)
       ELSE IF t.err # "nil" THEN t
       ELSE Decoded(t.n + Len(t.src), UDPPacketValidate(p2), p2, <<>>,
                    Append(t.reads, "data"))

UDPPacketWriteTo(p) ==
    IF UDPPacketValidate(p) # "nil" THEN NotEncoded(UDPPacketValidate(p))
    ELSE Encoded(<<p.Reserved[1], p.Reserved[2], p.Frag, p.AddrType>>
                    \o WriteAddr(p) \o PortBytes(p.Port) \o p.Data)

----------------------------------------------------------------------------
(* One message of any type put through Validate, WriteTo and ReadFrom *)

Kinds == {"socks4.Request", "socks4.Response", "HandshakeRequest",
          "HandshakeReply", "Request", "Reply", "UserPassRequest",
          "UserPassReply", "GSSAPIRequest", "GSSAPIReply", "UDPPacket"}

\* the zero value ReadFrom decodes into
Zero(k) ==
    CASE k = "socks4.Request" -> ZeroRequest
      [] k = "socks4.Response" -> ZeroResponse
      [] k = "HandshakeRequest" -> ZeroHandshakeRequest
      [] k = "HandshakeReply" -> ZeroHandshakeReply
      [] k = "Request" -> ZeroS5Request
      [] k = "Reply" -> ZeroS5Reply
      [] k = "UserPassRequest" -> ZeroUserPassRequest
      [] k = "UserPassReply" -> ZeroUserPassReply
      [] k = "GSSAPIRequest" -> ZeroGSSAPI
      [] k = "GSSAPIReply" -> ZeroGSSAPI
      [] k = "UDPPacket" -> ZeroUDPPacket

Validate(k, m) ==
    CASE k = "socks4.Request" -> RequestValidate(m)
      [] k = "socks4.Response" -> ResponseValidate(m)
      [] k = "HandshakeRequest" -> HandshakeRequestValidate(m)
      [] k = "HandshakeReply" -> HandshakeReplyValidate(m)
      [] k = "Request" -> S5RequestValidate(m)
      [] k = "Reply" -> S5ReplyValidate(m)
      [] k = "UserPassRequest" -> UserPassRequestValidate(m)
      [] k = "UserPassReply" -> UserPassReplyValidate(m)
      [] k = "GSSAPIRequest" -> GSSAPIRequestValidate(m)
      [] k = "GSSAPIReply" -> GSSAPIReplyValidate(m)
      [] k = "UDPPacket" -> UDPPacketValidate(m)

WriteTo(k, m) ==
    CASE k = "socks4.Request" -> Encoded(RequestWriteTo(m))
      [] k = "socks4.Response" -> Encoded(ResponseWriteTo(m))
      [] k = "HandshakeRequest" -> HandshakeRequestWriteTo(m)
      [] k = "HandshakeReply" -> HandshakeReplyWriteTo(m)
      [] k = "Request" -> S5RequestWriteTo(m)
      [] k = "Reply" -> S5ReplyWriteTo(m)
      [] k = "UserPassRequest" -> UserPassRequestWriteTo(m)
      [] k = "UserPassReply" -> UserPassReplyWriteTo(m)
      [] k = "GSSAPIRequest" -> GSSAPIRequestWriteTo(m)
      [] k = "GSSAPIReply" -> GSSAPIReplyWriteTo(m)
      [] k = "UDPPacket" -> UDPPacketWriteTo(m)

\* ReadFrom into a zero value, from a buffer holding src
ReadFrom(k, src) ==
    CASE k = "socks4.Request" ->
            LET d == RequestReadFrom(ZeroRequest, src)
            IN Decoded(d.n, d.err, d.req, d.src, d.reads)
      [] k = "socks4.Response" ->
            LET d == ResponseReadFrom(ZeroResponse, src)
            IN Decoded(d.n, d.err, d.resp, SubSeq(src, d.n + 1, Len(src)), <<"header">>)
      [] k = "HandshakeRequest" -> HandshakeRequestReadFrom(Zero(k), src)
      [] k = "HandshakeReply" -> HandshakeReplyReadFrom(Zero(k), src)
      [] k = "Request" -> S5RequestReadFrom(Zero(k), src)
      [] k = "Reply" -> S5ReplyReadFrom(Zero(k), src)
      [] k = "UserPassRequest" -> UserPassRequestReadFrom(Zero(k), src)
      [] k = "UserPassReply" -> UserPassReplyReadFrom(Zero(k), src)
      [] k = "GSSAPIRequest" -> GSSAPIRequestReadFrom(Zero(k), src)
      [] k = "GSSAPIReply" -> GSSAPIReplyReadFrom(Zero(k), src)
      [] k = "UDPPacket" -> UDPPacketReadFrom(Zero(k), src)

\* the values given to string and byte-slice fields: every sequence of at
\* most MaxStr bytes out of NUL and 'a', and for the fields limited to 255
\* bytes one of 255 and one of 256 bytes
RECURSIVE SeqsUpTo(_, _)
SeqsUpTo(S, n) ==
    IF n = 0 THEN {<<>>}
    ELSE SeqsUpTo(S, n - 1)
            \cup {Append(q, b) : q \in {x \in SeqsUpTo(S, n - 1) : Len(x) = n - 1}, b \in S}
Strings == SeqsUpTo({0, 97}, MaxStr)
Long(n) == [i \in 1..n |-> 97]
LimitedStrings == Strings \cup {Long(255), Long(256)}
\* the tokens of GSSAPI messages: the same, and one of 65536 bytes
Tokens == Strings \cup {Long(65536)}

\* the IPs given to net.IP fields: nil, 127.0.0.1 in its 4-byte and its
\* 16-byte form, and ::1
IPs == {<<>>, <<127, 0, 0, 1>>, V4InV6Prefix \o <<127, 0, 0, 1>>,
        <<0, 0, 0, 0, 0, 0, 0, 0, 0, 0, 0, 0, 0, 0, 0, 1>>}

Messages(k) ==
    CASE k = "socks4.Request" ->
            {RequestInit(v, c, 9999, ip, u, d) :
                v \in {SocksVersion, 5}, c \in {CmdConnect, CmdBind, 3},
                ip \in {<<>>, <<0, 0, 0, 1>>, <<127, 0, 0, 1>>},
                u \in Strings, d \in Strings}
      [] k = "socks4.Response" ->
            {ResponseInit(v, c, p, ip) :
                v \in {0, SocksVersion}, c \in 89..94, p \in {0, 5555},
                ip \in {<<>>, <<127, 0, 0, 1>>}}
      [] k = "HandshakeRequest" ->
            [Version : {4, S5_SocksVersion}, NMethods : 0..MaxStr, Methods : Strings]
                \cup {HandshakeRequestInit(v, ms) :
                        v \in {4, S5_SocksVersion}, ms \in LimitedStrings}
      [] k = "HandshakeReply" ->
            [Version : {4, S5_SocksVersion}, Method : {0, 2, 255}]
      [] k = "Request" ->
            [Version : {4, S5_SocksVersion}, Command : {S5_CmdConnect, 4},
             Reserved : {0, 1}, AddrType : {AddrTypeIPv4, AddrTypeDomain, AddrTypeIPv6, 5},
             IP : IPs, Domain : LimitedStrings, Port : {80}]
      [] k = "Reply" ->
            [Version : {4, S5_SocksVersion}, Reply : {0, 9},
             Reserved : {0, 1}, AddrType : {AddrTypeIPv4, AddrTypeDomain, AddrTypeIPv6, 5},
             IP : IPs, Domain : LimitedStrings, Port : {80}]
      [] k = "UserPassRequest" ->
            [Version : {AuthVersionUserPass, 5}, Username : LimitedStrings,
             Password : LimitedStrings]
      [] k = "UserPassReply" ->
            [Version : {AuthVersionUserPass, 5}, Status : {0, 1}]
      [] k = "GSSAPIRequest" ->
            [Version : {1, 2}, MsgType : {GSSAPITypeInit, GSSAPITypeAbort}, Token : Tokens]
      [] k = "GSSAPIReply" ->
            [Version : {1, 2}, MsgType : {GSSAPITypeReply, GSSAPITypeAbort}, Token : Tokens]
      [] k = "UDPPacket" ->
            [Reserved : {<<0, 0>>, <<0, 1>>}, Frag : {0, 1},
             AddrType : {AddrTypeIPv4, AddrTypeDomain, AddrTypeIPv6, 5},
             IP : IPs, Domain : LimitedStrings, Port : {80},
             Data : {<<>>, <<9>>, <<9, 9>>}]

NoNUL(x) == \A i \in 1..Len(x) : x[i] # 0

\* m has the shape its wire format can carry: NUL-terminated strings without
\* a NUL inside and within the default limits, and an IP of the family its
\* address type names
Framed(k, m) ==
    CASE k = "socks4.Request" ->
            /\ NoNUL(m.UserID) /\ Len(m.UserID) <= DefaultMaxUserIDLen
            /\ NoNUL(m.Domain) /\ Len(m.Domain) <= DefaultMaxDomainLen
      [] k \in {"Request", "Reply", "UDPPacket"} ->
            /\ (m.AddrType = AddrTypeIPv4) => To4(m.IP) # <<>>
            /\ (m.AddrType = AddrTypeIPv6) => To16(m.IP) # <<>>
      [] OTHER -> TRUE

WireMessages(k) == {m \in Messages(k) : Validate(k, m) = "nil" /\ Framed(k, m)}

\* the bytes of m whose end the wire format marks: all of them, but for the
\* DATA of a UDPPacket, which runs to the end of the stream
FramedLen(k, m) ==
    IF k = "UDPPacket" THEN WriteTo(k, m).n - Len(m.Data) ELSE WriteTo(k, m).n

\* the streams that end inside the framed bytes of m
Truncations(k, m) ==
    {SubSeq(WriteTo(k, m).bytes, 1, j) : j \in 0..(FramedLen(k, m) - 1)}

\* the bytes of m with the first header byte (VER, or RSV of a UDPPacket)
\* replaced by a value no header may carry
Corrupted(k, m) == [WriteTo(k, m).bytes EXCEPT ![1] = 9]

\* what the peer sends right after a message, before it has an answer
NextBytes == <<1, 2>>

\* the bytes of m with the peer's next bytes behind them in the same stream
Followed(k, m) == WriteTo(k, m).bytes \o NextBytes

NoEnc == [n |-> -1, err |-> "-", bytes |-> <<>>]

\* the limits of Request.ReadFrom, and the limits a caller passes to
\* ReadFromWithLimits
DefaultLimits == [u |-> DefaultMaxUserIDLen, d |-> DefaultMaxDomainLen]
Limits == 0..MaxStr
NoDec == [n |-> -1, err |-> "-", msg |-> <<>>, src |-> <<>>, reads |-> <<>>]

InitCodec ==
    /\ kind \in Kinds
    /\ mode \in {"message", "wire", "truncated", "corrupted", "followed"}
    /\ msg \in IF mode = "message" THEN Messages(kind) ELSE WireMessages(kind)
    /\ stream \in CASE mode = "message" -> {<<>>}
                    [] mode = "wire" -> {WriteTo(kind, msg).bytes}
                    [] mode = "truncated" -> Truncations(kind, msg)
                    [] mode = "corrupted" -> {Corrupted(kind, msg)}
                    [] mode = "followed" -> {Followed(kind, msg)}
    /\ limits = DefaultLimits
    /\ verr = "-" /\ vdom = "-" /\ enc = NoEnc /\ dec = NoDec

\* m.Validate()
Codec_Validate ==
    /\ mode = "message" /\ verr = "-"
    /\ verr' = Validate(kind, msg)
    /\ UNCHANGED <<kind, mode, msg, stream, limits, vdom, enc, dec, dialVars, serveVars,
                   proxyVars>>

\* r.ValidateDomain() of a SOCKS4 request
Codec_ValidateDomain ==
    /\ mode = "message" /\ kind = "socks4.Request" /\ vdom = "-"
    /\ vdom' = RequestValidateDomain(msg)
    /\ UNCHANGED <<kind, mode, msg, stream, limits, verr, enc, dec, dialVars, serveVars,
                   proxyVars>>

\* m.WriteTo(&buf)
Codec_WriteTo ==
    /\ mode = "message" /\ enc = NoEnc
    /\ enc' = WriteTo(kind, msg)
    /\ UNCHANGED <<kind, mode, msg, stream, limits, verr, vdom, dec, dialVars, serveVars,
                   proxyVars>>

\* got.ReadFrom(&buf) on the buffer WriteTo has filled
Codec_ReadBack ==
    /\ mode = "message" /\ enc # NoEnc /\ enc.err = "nil" /\ dec = NoDec
    /\ stream' = enc.bytes
    /\ dec' = ReadFrom(kind, enc.bytes)
    /\ UNCHANGED <<kind, mode, msg, limits, verr, vdom, enc, dialVars, serveVars,
                   proxyVars>>

\* got.ReadFrom(bytes.NewReader(stream))
Codec_ReadFrom ==
    /\ mode \in {"wire", "truncated", "corrupted", "followed"} /\ dec = NoDec
    /\ dec' = ReadFrom(kind, stream)
    /\ UNCHANGED <<kind, mode, msg, stream, limits, verr, vdom, enc, dialVars, serveVars,
                   proxyVars>>

\* got.ReadFromWithLimits(bytes.NewReader(stream), maxUserIDLen, maxDomainLen)
\* of a SOCKS4 request, with limits the caller chose
Codec_ReadFromWithLimits ==
    /\ kind = "socks4.Request" /\ dec = NoDec
    /\ mode \in {"wire", "truncated", "followed"}
    /\ \E u \in Limits, d \in Limits :
          /\ limits' = [u |-> u, d |-> d]
          /\ LET r == RequestReadFromWithLimits(ZeroRequest, stream, u, d)
             IN dec' = Decoded(r.n, r.err, r.req, r.src, r.reads)
    /\ UNCHANGED <<kind, mode, msg, stream, verr, vdom, enc, dialVars, serveVars,
                   proxyVars>>

CodecNext ==
    \/ Codec_Validate \/ Codec_ValidateDomain \/ Codec_WriteTo
    \/ Codec_ReadBack \/ Codec_ReadFrom \/ Codec_ReadFromWithLimits

----------------------------------------------------------------------------
(* Specifications *)

\* no dialer call in progress
IdleDialer ==
    /\ op = "none" /\ address = "" /\ stall = "none" /\ pc = "off"
    /\ ctxDone = FALSE /\ cancelAt = NotCancelled /\ wpc = "idle"
    /\ exitCh = "none" /\ conn = "none" /\ closes = <<>> /\ pendErr = NoErr
    /\ req = ZeroRequest /\ sent = <<>> /\ resp = ZeroResponse /\ wire = <<>>
    /\ ret = NoRet
    /\ steps = <<>> /\ p2pc = "idle" /\ resp2 = ZeroResponse /\ p2err = NoErr
    /\ readyCh = NoChan /\ received = <<>>

\* no listener running
IdleServe ==
    /\ spc = "off" /\ sctxDone = FALSE /\ lis = "closed" /\ lisClosedBy = {}
    /\ swpc = "off" /\ acceptErrs = 0 /\ permFail = FALSE /\ nconns = 0
    /\ hpc = [c \in Conns |-> "idle"] /\ cstate = [c \in Conns |-> "none"]
    /\ cclosedBy = [c \in Conns |-> <<>>] /\ fault = [c \in Conns |-> "none"]
    /\ onError = <<>> /\ onPanic = <<>> /\ crashed = FALSE
    /\ readTimeout = FALSE /\ deadline = [c \in Conns |-> "none"]
    /\ hlog = [c \in Conns |-> <<>>]

\* no connection being served with the default hooks
IdleProxy ==
    /\ gpc = "off" /\ gctxDone = FALSE /\ c2p = <<>> /\ cliClosed = FALSE
    /\ greq = ZeroRequest /\ replies = <<>> /\ hookRet = "-" /\ gOnError = <<>>
    /\ gconn = "closed" /\ target = "none" /\ tgtClosed = FALSE
    /\ upc = "idle" /\ ubuf = <<>> /\ dpc = "idle" /\ dbuf = <<>> /\ errc = <<>>
    /\ cSent = <<>> /\ tIn = <<>> /\ tEcho = 0 /\ t2p = <<>> /\ cIn = <<>>
    /\ p2c = <<>> /\ copyEnds = <<>> /\ tGreet = <<>>

\* no message in the codec
IdleCodec ==
    /\ kind = "none" /\ mode = "none" /\ msg = <<>> /\ stream = <<>>
    /\ limits = DefaultLimits
    /\ verr = "-" /\ vdom = "-" /\ enc = NoEnc /\ dec = NoDec

\* one DialContext or BindContext call, with its context
Init == InitDialer /\ IdleServe /\ IdleProxy /\ IdleCodec
Next == DialNext \/ BindNext \/ (pc # "off" /\ Cancel)
Spec == Init /\ [][Next]_vars

\* the steps of the goroutine that called DialContext or BindContext
CallerStep ==
    \/ Dial_ConnectProxy \/ Dial_StartWatcher \/ Dial_SplitHostPort
    \/ Dial_ParsePort \/ Dial_SendRequest \/ Dial_ReadResponse
    \/ Dial_CheckGranted \/ Dial_CloseOnFailure \/ Dial_ReturnError
    \/ Dial_ReturnConn
    \/ Bind_ConnectProxy \/ Bind_StartWatcher \/ Bind_SplitHostPort
    \/ Bind_ParsePort \/ Bind_SendRequest \/ Bind_ReadFirstResponse
    \/ Bind_CheckGranted \/ Bind_CloseOnFailure \/ Bind_ReturnError
    \/ Bind_StartPhase2 \/ Bind_Return

\* the same call with goroutines that are scheduled: the caller and the
\* watcher each take a step that stays possible
FairSpec ==
    /\ Spec
    /\ WF_vars(CallerStep)
    /\ WF_vars(Dial_Watcher)
    /\ WF_vars(Bind_Watcher)

\* the steps of the phase-2 goroutine once its read has returned
Phase2Step ==
    \/ Bind_Phase2SendReadErr \/ Bind_Phase2SendRejected
    \/ Bind_Phase2SendNil \/ Bind_Phase2Close

\* the same with a phase-2 goroutine that is scheduled too; the caller of
\* BindContext receives from the channel when, and as often as, it likes
FairSpecPhase2 == FairSpec /\ WF_vars(Phase2Step)

\* one ServeContext call
InitListener == IdleDialer /\ InitServe /\ IdleProxy /\ IdleCodec
SpecServe == InitListener /\ [][ServeNext]_vars

\* one accepted connection, handled by ServeContext's goroutine with every
\* hook left at its default
InitHandler == IdleDialer /\ IdleServe /\ InitProxy /\ IdleCodec
SpecProxy == InitHandler /\ [][ProxyNext]_vars

\* the same with the two copying goroutines scheduled: each takes a step
\* that stays possible; the handler, the client and the destination are not
\* bound to act
FairSpecProxy ==
    /\ SpecProxy
    /\ WF_vars(Relay_UpRead \/ Relay_UpWrite)
    /\ WF_vars(Relay_DownRead \/ Relay_DownWrite)

\* one message, or one byte stream, handed to the codec of its type
InitMessage == IdleDialer /\ IdleServe /\ IdleProxy /\ InitCodec
SpecCodec == InitMessage /\ [][CodecNext]_vars

\* the Go scheduler runs every goroutine that can run; whether a client
\* connects, an Accept fails transiently or a hook returns is not guaranteed
FairSpecServe ==
    /\ SpecServe
    /\ WF_vars(Serve_Watcher)
    /\ WF_vars(Serve_Select)
    /\ WF_vars(Serve_AcceptClosed)

----------------------------------------------------------------------------
(* Properties of the dialer *)

Range(q) == {q[i] : i \in 1..Len(q)}

\* the phase tag the CONNECT dialer attaches to a failure of each step
DialTag(phase) ==
    CASE phase = "connect" -> "connect to proxy"
      [] phase = "split"   -> "invalid target address"
      [] phase = "port"    -> "invalid target port"
      [] phase = "send"    -> "send request"
      [] phase = "read"    -> "read response"
      [] phase = "grant"   -> "proxy rejected request"

Failed == {i \in 1..Len(steps) : steps[i][2] = "fail"}

\* C1: when DialContext has returned, it has returned an error exactly when
\* one of its steps failed; then no step ran after the failing one, the error
\* carries the tag of that step, no connection is returned, and if the proxy
\* connection had been opened the calling goroutine closed it before
\* returning. A connection and an error are never returned together.
C1_DialFailureClosesAndTags ==
    (op = "connect" /\ pc = "done") =>
        /\ ~(ret.conn /\ ret.err # NoErr)
        /\ (ret.err # NoErr) <=> (Failed # {})
        /\ (ret.err = NoErr) => ret.conn
        /\ (ret.err # NoErr) =>
              /\ ~ret.conn
              /\ Failed = {Len(steps)}
              /\ ret.err.tag = DialTag(steps[Len(steps)][1])
              /\ (conn # "none") => (conn = "closed" /\ "caller" \in Range(closes))

C1_Witness ==
    /\ op = "connect" /\ pc = "done"
    /\ ret.err.tag = "read response"
    /\ steps[Len(steps)] = <<"read", "fail">>
    /\ conn = "closed" /\ closes = <<"caller">>

\* C2: a connection DialContext returned with a nil error was not closed by
\* the dialer (neither by the call nor by its cancellation watcher).
C2_ReturnedConnNotClosedByDialer ==
    (op = "connect" /\ pc = "done" /\ ret.conn /\ ret.err = NoErr) => closes = <<>>

ValidRejection(h) ==
    Len(h) = 8 /\ h[1] = 0 /\ h[2] \in {RepRejected, RepIdentFailed, RepUserIDMismatch}

\* C3: when DialContext has read from the proxy a well-formed reply whose code
\* is 91, 92 or 93, it returns a "rejected" error whose text carries that
\* code in hexadecimal, returns no connection, and has closed the proxy
\* connection.
C3_RejectionPropagation ==
    (op = "connect" /\ pc = "done" /\ wire # <<>> /\ ValidRejection(wire[1])) =>
        /\ ret.err.tag = "proxy rejected request"
        /\ HexValue(ret.err.code) = wire[1][2]
        /\ ~ret.conn
        /\ conn = "closed" /\ "caller" \in Range(closes)

C3_Witness ==
    /\ op = "connect" /\ pc = "done"
    /\ wire # <<>> /\ ValidRejection(wire[1]) /\ wire[1][2] = RepIdentFailed
    /\ ret.err.code = <<"5", "c">>
    /\ conn = "closed"

\* the address a reply carries on the wire
WireAddr(h) == [IP |-> <<h[5], h[6], h[7], h[8]>>, Port |-> h[3] * 256 + h[4]]

Delivering == Range(readyCh.buf) \cup Range(received)

\* C4: BindContext, once reply 1 is decoded as granted, returns the tunnel and
\* the address of reply 1 without waiting for the phase-2 goroutine, and no
\* value is in or has come out of the readiness channel while the read of
\* reply 2 has not completed.
C4_BindTwoPhaseOrdering ==
    (op = "bind") =>
        /\ (pc = "retok") => ENABLED Bind_Return
        /\ (pc = "done" /\ ret.err = NoErr) =>
              (ret.conn /\ ret.readyCh /\ ret.bindAddr = WireAddr(wire[1]))
        /\ (Delivering # {}) => (p2pc \notin {"idle", "read"})

C4_Witness ==
    /\ op = "bind" /\ pc = "done" /\ ret.err = NoErr
    /\ ret.bindAddr.Port = 5555
    /\ p2pc = "read" /\ readyCh.buf = <<>> /\ received = <<>>

\* C5: when the context is cancelled after BindContext returned successfully
\* and while the read of reply 2 is pending, the watcher closes the proxy
\* connection (stated of the states in which the watcher has finished).
C5_CancelAfterReturnClosesTunnel ==
    (/\ op = "bind" /\ ret.err = NoErr
     /\ cancelAt.pc = "done" /\ cancelAt.p2pc = "read"
     /\ wpc = "done")
        => "watcher" \in Range(closes)

\* C6: when the context is cancelled before reply 2 has been read, the caller
\* never receives nil from the readiness channel.
C6_CancelSuppressesReadiness ==
    (op = "bind" /\ ctxDone /\ cancelAt.p2pc \in {"idle", "read"}) =>
        NoErr \notin Range(received)

\* C7: the phase-2 goroutine puts one value on the readiness channel: the
\* values buffered and the values received never number more than one, and
\* when the channel is closed exactly one value was sent.
C7_ExactlyOneReadyValue ==
    (op = "bind") =>
        LET vals == SelectSeq(received, LAMBDA v : v # ChanClosed)
        IN /\ Len(vals) + Len(readyCh.buf) <= 1
           /\ readyCh.closed => (Len(vals) + Len(readyCh.buf) = 1)

----------------------------------------------------------------------------
(* Properties of the listener *)

C9_ShutdownOnCancel ==
    sctxDone ~> (lis = "closed" /\ spc = "returned")

C9_Witness ==
    /\ sctxDone /\ lis = "closed" /\ "watcher" \in lisClosedBy /\ spc = "returned"
    /\ \E c \in Conns : hpc[c] \in {"onaccept", "read", "onrequest"}

\* C10: after Accept has failed on a closed listener while the cancellation
\* signal had not fired, ServeContext does not call Accept again.
C10_AcceptLoopStopsOnPermanentError ==
    ~(permFail /\ ~sctxDone /\ spc = "accept")

\* the steps whose failure OnError has been told of for connection c
ErrorSteps(c) == {onError[i][2] : i \in {j \in 1..Len(onError) : onError[j][1] = c}}

----------------------------------------------------------------------------
(* Properties of the default hooks *)

\* the replies written to the client that carry the given code
RepliesWith(code) == {i \in 1..Len(replies) : replies[i][2] = code}

\* C12: when the goroutine serving a connection with the default hooks has
\* read a version-4 request header whose command byte is neither CONNECT nor
\* BIND, then by the time it ends it has written a rejected reply to the
\* client and has called OnError.
C12_UnknownCommandRejected ==
    (/\ gpc = "done"
     /\ greq.Version = SocksVersion
     /\ greq.Command \notin {CmdConnect, CmdBind})
        => (RepliesWith(ReqRejected) # {} /\ gOnError # <<>>)

\* what the destination has written so far: its greeting, then its echo
Echoed == tGreet \o SubSeq(tIn, 1, tEcho)

\* the tunnel is up: the handler is relaying and neither end has closed
TunnelUp == gpc = "select" /\ ~cliClosed /\ ~tgtClosed

\* C13: in a tunnel set up by OnConnectDefault, what has arrived at the
\* destination is always an initial part of what the client wrote, and what
\* has arrived at the client an initial part of what the destination wrote.
\* While the tunnel is up both copies are running, every byte written is
\* either delivered or still on its way in the same order, whatever is on its
\* way can move on, and once nothing is on its way and the destination has
\* echoed everything, all the bytes the client wrote have come back. The
\* handler leaves the relay only after a cancellation or a close by either
\* end.
C13_RelayIntegrity ==
    /\ IsPrefix(tIn, cSent)
    /\ IsPrefix(cIn, Echoed)
    /\ TunnelUp =>
          /\ upc = "copy" /\ dpc = "copy"
          /\ cSent = tIn \o ubuf \o c2p
          /\ Echoed = cIn \o dbuf \o t2p
          /\ (c2p # <<>> /\ ubuf = <<>>) => ENABLED Relay_UpRead
          /\ (ubuf # <<>>) => ENABLED Relay_UpWrite
          /\ (tEcho < Len(tIn)) => ENABLED Target_Echo
          /\ (t2p # <<>> /\ dbuf = <<>>) => ENABLED Relay_DownRead
          /\ (dbuf # <<>>) => ENABLED Relay_DownWrite
          /\ (/\ Len(cSent) = MaxPayload /\ c2p = <<>> /\ ubuf = <<>>
              /\ tEcho = Len(tIn) /\ t2p = <<>> /\ dbuf = <<>>) =>
                    cIn = tGreet \o Payload
    /\ (gpc \in {"defer", "done"} /\ target \in {"open", "closed"}) =>
          (gctxDone \/ cliClosed \/ tgtClosed)

C13_Witness ==
    /\ TunnelUp /\ ~gctxDone
    /\ cSent = Payload /\ tIn = Payload /\ cIn = Payload

\* the reply the client decodes from the i-th reply written to it
ReplySeen(i) == ResponseReadFrom(ZeroResponse, replies[i]).resp

NoRelay == upc = "idle" /\ dpc = "idle" /\ tIn = <<>> /\ cIn = <<>>

\* C14: once OnConnectDefault has dialled the target, exactly one reply has
\* been written to the client, carrying the port and the IPv4 address of the
\* request: with code rejected when the dial failed, and then the handler has
\* returned an error (passed to OnError) and no copying has started; with code
\* granted when the dial succeeded.
C14_DefaultOnConnectReply ==
    /\ (target = "failed") =>
          /\ Len(replies) = 1
          /\ ReplySeen(1).Code = ReqRejected
          /\ ReplySeen(1).Port = greq.Port /\ ReplySeen(1).IP = greq.IP
          /\ hookRet \notin {"-", "nil"} /\ hookRet \in Range(gOnError)
          /\ NoRelay
    /\ (target \in {"open", "closed"}) =>
          /\ Len(replies) = 1
          /\ ReplySeen(1).Code = ReqGranted
          /\ ReplySeen(1).Port = greq.Port /\ ReplySeen(1).IP = greq.IP
    /\ (gpc = "onconnect") => replies = <<>>

C14_Witness ==
    /\ gpc = "done" /\ target = "failed"
    /\ replies = <<<<0, 91, 39, 15, 127, 0, 0, 1>>>>
    /\ gOnError = <<"connect failed">>

\* C15: once OnBindDefault has handled a BIND request, exactly one reply has
\* been written to the client, its code is rejected, the handler has returned
\* nil, and no connection has been opened and no copying started.
C15_DefaultOnBindRejects ==
    /\ (greq.Command = CmdBind /\ hookRet # "-") =>
          /\ Len(replies) = 1
          /\ ReplySeen(1).Code = ReqRejected
          /\ RepliesWith(ReqGranted) = {}
          /\ hookRet = "nil" /\ gOnError = <<>>
          /\ target = "none" /\ NoRelay
    /\ (gpc = "onbind") => replies = <<>>

C15_Witness ==
    /\ gpc = "done" /\ greq.Command = CmdBind /\ hookRet = "nil"
    /\ replies = <<<<0, 91, 0, 0, 0, 0, 0, 0>>>>

----------------------------------------------------------------------------
(* Properties of the codecs *)

\* C16: a SOCKS4 Request or Response that passes Validate is written by
\* WriteTo without error, and ReadFrom on the bytes written succeeds, yields a
\* record equal to it in every field, and reports the byte count WriteTo
\* reported.
C16_Socks4RoundTrip ==
    (mode = "message" /\ verr = "nil"
        /\ kind \in {"socks4.Request", "socks4.Response"}) =>
        /\ (enc # NoEnc) => enc.err = "nil"
        /\ (dec # NoDec) => (dec.err = "nil" /\ dec.msg = msg /\ dec.n = enc.n)

\* net.IP.Equal: the same address in its 4-byte or its 16-byte form
IPEqual(a, b) == a = b \/ (To16(a) # <<>> /\ To16(a) = To16(b))

\* the fields of m that carry meaning are found unchanged in d: of the
\* address union the member the address type names, and the GSSAPI token
\* unless the message is an abort
SameFields(k, m, d) ==
    CASE k \in {"Request", "Reply", "UDPPacket"} ->
            /\ [m EXCEPT !.IP = <<>>, !.Domain = <<>>]
                   = [d EXCEPT !.IP = <<>>, !.Domain = <<>>]
            /\ IF m.AddrType = AddrTypeDomain THEN m.Domain = d.Domain
               ELSE IPEqual(m.IP, d.IP)
      [] k \in {"GSSAPIRequest", "GSSAPIReply"} ->
            /\ m.Version = d.Version /\ m.MsgType = d.MsgType
            /\ (m.MsgType # GSSAPITypeAbort) => m.Token = d.Token
      [] OTHER -> m = d

S5Kinds == Kinds \ {"socks4.Request", "socks4.Response"}

\* C17: a SOCKS5 message of any type that passes Validate is written by
\* WriteTo without error, and ReadFrom on the bytes written succeeds, yields
\* the same semantic fields, and reports the byte count WriteTo reported.
C17_Socks5RoundTrip ==
    (mode = "message" /\ verr = "nil" /\ kind \in S5Kinds) =>
        /\ (enc # NoEnc) => enc.err = "nil"
        /\ (dec # NoDec) =>
              (dec.err = "nil" /\ SameFields(kind, msg, dec.msg) /\ dec.n = enc.n)

\* the types whose wire form is a fixed header and variable-length fields
HeaderKinds == Kinds \ {"socks4.Response", "HandshakeReply", "UserPassReply"}

\* C18: decoding a message whose first header byte has been replaced by an
\* invalid value fails, and the header is the only thing the decoder has
\* issued a read for.
C18_HeaderFirstValidation ==
    (mode = "corrupted" /\ kind \in HeaderKinds /\ dec # NoDec) =>
        (dec.err # "nil" /\ dec.reads = <<"header">>)

\* C19: ValidateDomain of a SOCKS4 request succeeds exactly when (the IP is
\* 0.0.0.x with x # 0) is equivalent to (the domain is not empty), and fails
\* with ErrInvalidDomain otherwise.
C19_Socks4aAddressRule ==
    (kind = "socks4.Request" /\ mode = "message" /\ vdom # "-") =>
        LET form4a == SubSeq(msg.IP, 1, 3) = <<0, 0, 0>> /\ msg.IP[4] # 0
        IN /\ (vdom = "nil") <=> (form4a <=> (msg.Domain # <<>>))
           /\ (vdom # "nil") => vdom = "ErrInvalidDomain"

C19_Witness ==
    /\ kind = "socks4.Request" /\ mode = "message"
    /\ msg.IP = <<127, 0, 0, 1>> /\ msg.Domain = <<97>>
    /\ vdom = "ErrInvalidDomain"

\* C20: decoding a stream that ends inside the framed bytes of a message (a
\* fixed field, a length-prefixed field, or a string whose NUL is missing)
\* returns io.EOF or io.ErrUnexpectedEOF.
C20_TruncationIsEndOfStream ==
    (mode = "truncated" /\ dec # NoDec) => dec.err \in {"EOF", "ErrUnexpectedEOF"}

C20_Witness ==
    /\ mode = "truncated" /\ kind = "socks4.Request"
    /\ stream = <<4, 1, 39, 15, 127, 0, 0, 1, 97>>
    /\ dec.err = "EOF" /\ dec.n = 9

----------------------------------------------------------------------------
(* Properties of the dialer's request and of the listener's per-connection  *)
(* steps                                                                    *)

\* the address field and what follows the 8-byte header of the bytes written
SentIP == SubSeq(sent, 5, 8)
SentTail == SubSeq(sent, 9, Len(sent))

\* C21: the request DialContext or BindContext has written carries the
\* target's address and no domain when the host is a literal IPv4 address,
\* and address 0.0.0.1 with the host as domain for every other host; a
\* CONNECT request never carries address 0.0.0.0.
C21_DialerAddressEncoding ==
    (sent # <<>>) =>
        LET host == SplitHostPort(address).host
            ip4 == ParseIP(host).to4
        IN /\ (ip4 # <<>>) => (SentIP = ip4 /\ SentTail = UserID \o <<0>>)
           /\ (ip4 = <<>>) =>
                 /\ SentIP = <<0, 0, 0, 1>>
                 /\ SentTail = UserID \o <<0>> \o HostBytes(host) \o <<0>>
           /\ (op = "connect") => SentIP # <<0, 0, 0, 0>>

\* the steps of the goroutine handling c, without the reports and deadlines
MainSteps(c) ==
    SelectSeq(hlog[c], LAMBDA e : e[1] \in {"onaccept", "read", "onrequest", "close"})

\* the complete runs of one connection: a step follows only steps that
\* returned nil, and the close ends every run
Runs ==
    {<<<<"onaccept", a>>, <<"close", "ok">>>> : a \in {"err", "panic"}}
    \cup {<<<<"onaccept", "ok">>, <<"read", r>>, <<"close", "ok">>>> : r \in {"err", "panic"}}
    \cup {<<<<"onaccept", "ok">>, <<"read", "ok">>, <<"onrequest", o>>, <<"close", "ok">>>> :
            o \in Outcomes}

\* C22: what has been done for a connection is the beginning of on-accept,
\* one decode, on-request, close, in this order, a step being taken only
\* when every step before it returned nil; the handling is over exactly when
\* the close has been done.
C22_PerConnectionStepOrder ==
    \A c \in Conns :
        /\ \E r \in Runs : IsPrefix(MainSteps(c), r)
        /\ (hpc[c] = "done") <=> (MainSteps(c) \in Runs)
        /\ (cstate[c] = "closed") <=> (MainSteps(c) \in Runs)

C22_Witness ==
    /\ hpc[1] = "done" /\ cstate[1] = "closed"
    /\ MainSteps(1) = <<<<"onaccept", "ok">>, <<"read", "ok">>,
                        <<"onrequest", "ok">>, <<"close", "ok">>>>
    /\ MainSteps(2) = <<<<"onaccept", "err">>, <<"close", "ok">>>>

\* the calls of opts.OnError made with connection c, in order
ErrorsOf(c) == SelectSeq(onError, LAMBDA e : e[1] = c)

\* the steps of the goroutine handling c that returned an error
FailedSteps(c) == {i \in 1..Len(MainSteps(c)) : MainSteps(c)[i][2] = "err"}

\* C23: on-error has been called for a connection once, with the failed step
\* and that connection, if one of its steps returned an error, and not at all
\* otherwise; after a step that returned an error only the close is done.
C23_ErrorReportedOnce ==
    \A c \in Conns :
        /\ \A i \in FailedSteps(c) :
              /\ ErrorsOf(c) = <<<<c, MainSteps(c)[i][1]>>>>
              /\ \A j \in (i + 1)..Len(MainSteps(c)) : MainSteps(c)[j][1] = "close"
        /\ (FailedSteps(c) = {}) => ErrorsOf(c) = <<>>

C23_Witness ==
    /\ hpc[1] = "done" /\ ErrorsOf(1) = <<<<1, "onrequest">>>>
    /\ MainSteps(1)[3] = <<"onrequest", "err">>
    /\ hpc[2] = "done" /\ fault[2] = "none" /\ ErrorsOf(2) = <<>>

\* the positions in hlog[c] of the steps named step
StepsNamed(c, step) == {i \in 1..Len(hlog[c]) : hlog[c][i][1] = step}

\* C24: with a non-zero RequestReadTimeout the read deadline of a connection
\* is set when its request is decoded, the setting coming before the decode,
\* and it is not set while on-request runs or after it; with a zero
\* RequestReadTimeout the deadline is never set.
C24_ReadDeadlineScope ==
    \A c \in Conns :
        /\ (hpc[c] = "onrequest" \/ StepsNamed(c, "onrequest") # {}) =>
              deadline[c] = "none"
        /\ readTimeout =>
              /\ (hpc[c] = "decode") => deadline[c] = "set"
              /\ \A i \in StepsNamed(c, "read") :
                    \E j \in StepsNamed(c, "setdeadline") : j < i
              /\ \A i \in StepsNamed(c, "onrequest") :
                    \E j \in StepsNamed(c, "cleardeadline") : j < i
        /\ ~readTimeout =>
              (deadline[c] = "none" /\ StepsNamed(c, "setdeadline") = {})

C24_Witness ==
    /\ readTimeout
    /\ hpc[1] = "onrequest" /\ deadline[1] = "none"
    /\ hlog[1] = <<<<"onaccept", "ok">>, <<"setdeadline", "ok">>, <<"read", "ok">>,
                   <<"cleardeadline", "ok">>>>
    /\ hpc[2] = "decode" /\ deadline[2] = "set"

\* the steps of the goroutine handling c that panicked
PanickedSteps(c) == {i \in 1..Len(hlog[c]) : hlog[c][i][2] = "panic"}

\* the calls of opts.OnPanic made with connection c
PanicsOf(c) == SelectSeq(onPanic, LAMBDA x : x = c)

----------------------------------------------------------------------------
(* Properties of the relay of the default on-connect handler *)

\* C26: once OnConnectDefault has written the granted reply it starts both
\* copies and waits; it can return exactly when a copy has ended or the
\* context has been cancelled, also while the other copy is still running;
\* what it returns is the context's error, after a cancellation, or what the
\* copy that ended first returned (nil on end of stream); the target
\* connection is closed when it has returned, and not before.
C26_RelayTermination ==
    /\ (gpc = "select") =>
          /\ upc # "idle" /\ dpc # "idle" /\ target = "open"
          /\ (ENABLED Proxy_Select) <=> (gctxDone \/ copyEnds # <<>>)
    /\ (target \in {"open", "closed"} /\ hookRet # "-") =>
          \/ hookRet = "context canceled" /\ gctxDone
          \/ copyEnds # <<>> /\ hookRet = copyEnds[1]
    /\ (target = "closed") <=> (target # "none" /\ target # "failed" /\ hookRet # "-")

C26_Witness ==
    /\ gpc = "done" /\ hookRet = "nil" /\ ~gctxDone
    /\ copyEnds = <<"nil">> /\ upc = "done" /\ dpc = "copy"
    /\ target = "closed"

RECURSIVE Flatten(_)
Flatten(q) == IF q = <<>> THEN <<>> ELSE Head(q) \o Flatten(Tail(q))

\* C27: a copy is running only after a granted reply has been written to the
\* client connection, and what has been written to the client connection is
\* the 8 bytes of the reply followed by the bytes relayed from the target.
C27_ReplyBeforeRelay ==
    /\ (upc # "idle" \/ dpc # "idle") =>
          (Len(replies) = 1 /\ RepliesWith(ReqGranted) = {1} /\ Len(replies[1]) = 8)
    /\ p2c = Flatten(replies) \o cIn

C27_Witness ==
    /\ gpc = "select" /\ tGreet = Greeting
    /\ p2c = <<0, 90, 39, 15, 127, 0, 0, 1>> \o Greeting
    /\ cIn = Greeting /\ cSent = <<>>

----------------------------------------------------------------------------
(* Properties of connection ownership, cancellation and consumption *)

\* C28: the proxy connection of a DialContext or BindContext call is closed
\* by at most one task: the cancellation watcher and the calling goroutine
\* never both call proxyConn.Close().
C28_SingleCloser ==
    Cardinality(Range(closes)) <= 1 /\ Len(closes) <= 1

\* the call is in a Write or a Read of proxyConn that the proxy leaves pending
Blocked == (stall = "write" /\ pc = "send") \/ (stall = "read" /\ pc = "read")

\* C29: when the context is cancelled while the call is blocked in the write
\* of the request or the read of the first reply, the watcher closes the proxy
\* connection and the call eventually returns an error and no connection.
C29_CancelUnblocksHandshake ==
    (ctxDone /\ Blocked) ~>
        (pc = "done" /\ ret.err # NoErr /\ ~ret.conn /\ "watcher" \in Range(closes))

C29_Witness ==
    /\ op = "bind" /\ stall = "read" /\ cancelAt.pc = "read"
    /\ pc = "done" /\ ret.err.tag = "read first BIND response"
    /\ closes = <<"watcher", "caller">>


\* C30: a successful decode of a SOCKS4/4a request takes from the stream the
\* bytes of that one request and no more: what the peer sent right after the
\* request is what is left to read, and the returned count is the number of
\* bytes taken.
C30_ExactConsumption ==
    (kind = "socks4.Request" /\ mode = "followed" /\ dec # NoDec /\ dec.err = "nil") =>
        /\ dec.src = NextBytes
        /\ dec.n = Len(stream) - Len(dec.src)
        /\ dec.n = Len(WriteTo(kind, msg).bytes)

\* the same for a request that ends the stream, where it holds
C30_ExactConsumptionAtEnd ==
    (/\ kind = "socks4.Request" /\ mode = "message" /\ msg \in WireMessages(kind)
     /\ dec # NoDec /\ dec.err = "nil") =>
        /\ dec.src = <<>>
        /\ dec.n = Len(stream)


----------------------------------------------------------------------------
(* Properties of the decoders' checks and bounds *)

\* C31: for every message type, a ReadFrom that returns a nil error has
\* decoded a message that passes the type's Validate.
C31_DecodedIsValid ==
    (dec # NoDec /\ dec.err = "nil") => Validate(kind, dec.msg) = "nil"

\* a SOCKS4a request decoded without error and with an empty domain
C31_EmptyDomainDecoded ==
    /\ kind = "socks4.Request" /\ dec # NoDec /\ dec.err = "nil"
    /\ IsSOCKS4a(dec.msg) /\ dec.msg.Domain = <<>>


\* the bytes a decode has taken from the stream
Consumed == Len(stream) - Len(dec.src)

\* the userID, and the domain of a SOCKS4a request, are within the limits
Fits(m, lim) ==
    /\ Len(m.UserID) <= lim.u
    /\ IsSOCKS4a(m) => Len(m.Domain) <= lim.d

\* C32: a decode of a SOCKS4/4a request with limits maxUserIDLen and
\* maxDomainLen accepts a request whose userID and domain are within the
\* limits, rejects one whose userID or domain is longer, takes at most
\* maxUserIDLen+1 bytes behind the header when only the userID is scanned,
\* and at most 8 + (maxUserIDLen+1) + (maxDomainLen+1) bytes in all.
C32_BoundedScan ==
    (kind = "socks4.Request" /\ mode \in {"wire", "followed"} /\ dec # NoDec) =>
        /\ Fits(msg, limits) => dec.err = "nil"
        /\ ~Fits(msg, limits) => dec.err # "nil"
        /\ Consumed <= 8 + (limits.u + 1) + (limits.d + 1)
        /\ ~IsSOCKS4a(msg) => Consumed <= 8 + (limits.u + 1)


\* the error of a decode whose stream ends before the terminator of the
\* userID: the header of m and its userID, and then the end of the stream
ScanEnded(m) ==
    RequestReadFrom(ZeroRequest,
                    SubSeq(RequestWriteTo(m), 1, 8 + Len(m.UserID))).err

\* C33: a decode of a SOCKS4/4a request that fails because the terminator of
\* the userID or of the domain is not within the limit, with the terminator
\* still to come in the stream, returns an error other than the one returned
\* when the stream ends before the terminator.
C33_DistinctScanFailures ==
    (/\ kind = "socks4.Request" /\ mode \in {"wire", "followed"} /\ dec # NoDec
     /\ ~Fits(msg, limits) /\ dec.err # "nil") =>
        dec.err # ScanEnded(msg)


----------------------------------------------------------------------------
(* Properties of the SOCKS5 encoders *)

\* a field whose length the wire format cannot carry: the domain of a
\* Request, Reply or UDPPacket with a domain address, the username or the
\* password of a UserPassRequest, the token of a GSSAPI message but an abort
BadLength(k, m) ==
    CASE k \in {"Request", "Reply", "UDPPacket"} ->
            m.AddrType = AddrTypeDomain /\ (Len(m.Domain) = 0 \/ Len(m.Domain) > 255)
      [] k = "UserPassRequest" -> Len(m.Username) > 255 \/ Len(m.Password) > 255
      [] k \in {"GSSAPIRequest", "GSSAPIReply"} ->
            m.MsgType # GSSAPITypeAbort /\ (Len(m.Token) = 0 \/ Len(m.Token) > 65535)
      [] OTHER -> FALSE

\* C34: WriteTo of a message with such a field returns an error with byte
\* count 0 and has written nothing.
C34_ValidateBeforeWrite ==
    (mode = "message" /\ enc # NoEnc /\ BadLength(kind, msg)) =>
        /\ enc.err # "nil" /\ enc.n = 0 /\ enc.bytes = <<>>

C34_Witness ==
    /\ kind = "Request" /\ mode = "message" /\ msg.AddrType = AddrTypeDomain
    /\ Len(msg.Domain) = 256 /\ msg.Version = S5_SocksVersion /\ msg.Reserved = 0
    /\ enc.err = "ErrInvalidReplyDomain" /\ enc.n = 0 /\ enc.bytes = <<>>


\* the address bytes the wire format of a Request or Reply has for m
AddrBytes(m) ==
    CASE m.AddrType = AddrTypeIPv4 -> 4
      [] m.AddrType = AddrTypeIPv6 -> 16
      [] m.AddrType = AddrTypeDomain -> 1 + Len(m.Domain)

\* C35: the bytes a WriteTo of a SOCKS5 Request or Reply has written when it
\* returns a nil error are VER, CMD or REP, RSV, ATYP, then 4 address bytes
\* for an IPv4 address, 16 for an IPv6 address, or the length byte and the
\* domain, then the port, high byte first.
C35_ByteExactAddress ==
    (/\ kind \in {"Request", "Reply"} /\ mode = "message"
     /\ enc # NoEnc /\ enc.err = "nil"
     /\ msg.AddrType \in {AddrTypeIPv4, AddrTypeDomain, AddrTypeIPv6}) =>
        LET b == enc.bytes
            a == AddrBytes(msg)
        IN /\ Len(b) = 4 + a + 2
           /\ SubSeq(b, 1, 4) =
                <<msg.Version, IF kind = "Request" THEN msg.Command ELSE msg.Reply,
                  msg.Reserved, msg.AddrType>>
           /\ msg.AddrType = AddrTypeDomain =>
                SubSeq(b, 5, 4 + a) = <<Len(msg.Domain)>> \o msg.Domain
           /\ SubSeq(b, 5 + a, 6 + a) = <<msg.Port \div 256, msg.Port % 256>>


\* C36: in the bytes WriteTo emits for a SOCKS5 handshake request, whether
\* Init built the request or not, the NMETHODS byte is the number of method
\* bytes that follow it and is between 1 and 255.
C36_HandshakeMethodCount ==
    (kind = "HandshakeRequest" /\ mode = "message" /\ enc # NoEnc /\ enc.err = "nil") =>
        /\ enc.bytes[2] = Len(enc.bytes) - 2
        /\ enc.bytes[2] \in 1..255

\* Init with 256 methods, emitted with an NMETHODS byte of 0 before them
C36_InitOverflowEmitted ==
    /\ kind = "HandshakeRequest" /\ mode = "message"
    /\ msg = HandshakeRequestInit(S5_SocksVersion, Long(256))
    /\ enc.err = "nil" /\ enc.n = 258 /\ enc.bytes[2] = 0

\* a request whose NMethods is not the length of Methods, emitted as it is
C36_MismatchEmitted ==
    /\ kind = "HandshakeRequest" /\ mode = "message"
    /\ msg = [Version |-> S5_SocksVersion, NMethods |-> 2, Methods |-> <<97>>]
    /\ enc.err = "nil" /\ enc.bytes = <<5, 2, 97>>


----------------------------------------------------------------------------
(* Properties of the tasks behind BIND and behind the relay *)

\* C37: the first value the caller receives from the readiness channel is
\* nil exactly when reply 2 was read without error (so completely, and
\* valid) and is granted; otherwise it is the error of the read, or the
\* rejection carrying the code of reply 2.
C37_FirstReadinessValue ==
    (op = "bind" /\ received # <<>>) =>
        /\ received[1] # ChanClosed
        /\ received[1] = NoErr <=> (p2err = NoErr /\ IsGranted(resp2))
        /\ p2err # NoErr => received[1] = p2err
        /\ (p2err = NoErr /\ ~IsGranted(resp2)) =>
                received[1] = Rejected("proxy rejected BIND finalization", resp2.Code)

C37_Witness ==
    /\ op = "bind" /\ Len(received) = 1 /\ p2err = NoErr
    /\ resp2.Code = RepRejected
    /\ received[1] = Rejected("proxy rejected BIND finalization", RepRejected)


\* the read of reply 2 has returned
Read2Returned == op = "bind" /\ p2pc \in {"senderr", "sendrej", "sendnil", "closech"}

\* C38: once the read of reply 2 has returned, the phase-2 goroutine ends,
\* having closed the readiness channel, whether the caller receives no
\* value, or one (a caller that receives two or more is not spoken of).
C38_Phase2Terminates ==
    Read2Returned ~> ((p2pc = "done" /\ readyCh.closed) \/ Len(received) >= 2)

\* the phase-2 goroutine is blocked in a send on the full channel
C38_BlockedInSend ==
    /\ op = "bind" /\ p2pc \in {"sendrej", "sendnil"}
    /\ readyCh.buf # <<>> /\ received = <<>>


\* C39: once the default on-connect handler has returned and the listener
\* has closed the client connection, each copying goroutine that was
\* started ends: it leaves its copy and its send on the result channel
\* goes through.
C39_RelayTasksTerminate ==
    (gpc = "done") ~> (upc \in {"idle", "done"} /\ dpc \in {"idle", "done"})

C39_Witness ==
    /\ gpc = "done" /\ hookRet = "context canceled"
    /\ gconn = "closed" /\ target = "closed"
    /\ upc = "done" /\ dpc = "done"
    /\ Len(errc) = 2 /\ Len(copyEnds) = 2

====
